---------------------------- MODULE Spec2Model ----------------------------
(***************************************************************************)
(* A model of the insurance graph-RAG repository's two engines:            *)
(*                                                                         *)
(*   - GraphRAGQueryProcessor (src/src/graph_rag_query_processor.py) and   *)
(*     EnhancedGraphRAGQueryProcessor (src/src/enhanced_query_processor.py)*)
(*     : the in-memory knowledge graph, build_graph_query and              *)
(*     execute_graph_query;                                                *)
(*   - SelfEvolvingGraphSchema (src/src/self_evolving_graph_schema.py):    *)
(*     add_entity_type, add_relationship_type, analyze_instance_data and   *)
(*     evolve_schema over the versioned schema graph.                      *)
(*                                                                         *)
(* Python dictionaries are functions (records); a key that the code reads  *)
(* with d.get(k, default) is modelled by Get / the default, a key read     *)
(* with d[k] is a fault (KeyError) when it is missing.  Python lists are   *)
(* sequences.  The iteration order of the networkx graphs is insertion     *)
(* order in the code; the model iterates in one fixed order (NodeOrder,    *)
(* EdgeOrder), so formulas here speak of sets and counts, not of order.    *)
(***************************************************************************)
EXTENDS Integers, Sequences, FiniteSets, TLC

VARIABLES
    \* ---- GraphRAGQueryProcessor
    kg_nodes,        \* knowledge_graph nodes: id -> [labels, properties]
    kg_edges,        \* knowledge_graph keyed edges: set of <<source, target, key>>
    edge_loads,      \* how often each edge record of the graph file was loaded
    graph_query,     \* the graph-query specification last built or submitted
    built,           \* TRUE when graph_query came out of build_graph_query
    results,         \* the dictionary execute_graph_query returned last
    raised,          \* TRUE when the last execute_graph_query call raised
    path_counts,     \* len(current_paths) after the start filter and each step
    \* ---- request front end (intent and parameters of the last build call)
    intent,
    params,
    \* ---- SelfEvolvingGraphSchema
    schema,          \* [nodes, edges, versions, quality_scores]
    last_call,       \* the schema operation called last, with its arguments
    ret,             \* what that call returned
    \* ---- parameter extraction and response generation
    query_text,      \* the query text of the last extract_parameters call
    user_context,    \* the caller's user_context dictionary, as it is now
    response,        \* the last generate_response call and what it returned
    \* ---- intent analysis
    analysis,        \* the last analyze_intent call and what it returned
    \* ---- AutomationManager
    automation,      \* [confidence_thresholds, decision_history, escalation_history, metrics]
    auto_call        \* the last AutomationManager call and what it returned

vars == <<kg_nodes, kg_edges, edge_loads, graph_query, built, results, raised,
          path_counts, intent, params, schema, last_call, ret,
          query_text, user_context, response, analysis, automation, auto_call>>

queryVars  == <<kg_nodes, kg_edges, edge_loads, graph_query, built, results,
                raised, path_counts, intent, params>>
schemaVars == <<schema, last_call, ret>>
frontVars  == <<query_text, user_context, response, analysis, automation, auto_call>>

-----------------------------------------------------------------------------
(* Python values.  A property value is a str or an int; None is a marker.  *)

StrV(s) == [kind |-> "str", s |-> s, n |-> 0]
IntV(n) == [kind |-> "int", s |-> "", n |-> n]
None == "None"

\* d.get(k) of a dictionary d: None when the key is missing.
Get(d, k) == IF k \in DOMAIN d THEN d[k] ELSE None

\* d.get(k, default)
GetD(d, k, default) == IF k \in DOMAIN d THEN d[k] ELSE default

\* The dictionary d with d[k] = v.
Put(d, k, v) == [x \in DOMAIN d \cup {k} |-> IF x = k THEN v ELSE d[x]]

\* str.lower() on the strings the model uses.
Lower(s) ==
    CASE s = "P1001" -> "p1001"
      [] s = "U5001" -> "u5001"
      [] s = "Liability" -> "liability"
      [] s = "Deductible" -> "deductible"
      [] OTHER -> s

EmptyDict == [k \in {} |-> None]

\* The elements of a sequence.
Range(seq) == {seq[i] : i \in DOMAIN seq}

\* SelectSeq with the test given as a set of the elements to keep.
RECURSIVE Keep(_, _)
Keep(seq, S) ==
    IF seq = <<>> THEN <<>>
    ELSE (IF Head(seq) \in S THEN <<Head(seq)>> ELSE <<>>) \o Keep(Tail(seq), S)

RECURSIVE Concat(_)
Concat(seqs) ==
    IF seqs = <<>> THEN <<>> ELSE Head(seqs) \o Concat(Tail(seqs))

\* Dedup without the "if v not in lst" test: every value is appended.
KeepDuplicates(seq) == seq

\* A list without its repeated elements, first occurrences kept:
\* "if v not in lst: lst.append(v)".
RECURSIVE Dedup(_)
Dedup(seq) ==
    IF seq = <<>> THEN <<>>
    ELSE LET front == Dedup(SubSeq(seq, 1, Len(seq) - 1))
             last  == seq[Len(seq)]
         IN  IF last \in Range(front) THEN front ELSE Append(front, last)

-----------------------------------------------------------------------------
(* The knowledge graph file: the node and edge records that                *)
(* _load_knowledge_graph may be given.                                     *)

MaxEdgeRecords == 2

NodeOrder == <<"pol1", "pol2", "cov1", "cov2", "ins1">>
NodeIds == Range(NodeOrder)

NodeRecord(id) ==
    CASE id = "pol1" -> [id |-> id, labels |-> {"Policy"},
                         properties |-> [policy_number |-> StrV("P1001"),
                                         type |-> StrV("auto")]]
      [] id = "pol2" -> [id |-> id, labels |-> {"Policy"},
                         properties |-> [type |-> StrV("home")]]
      [] id = "cov1" -> [id |-> id, labels |-> {"Coverage"},
                         properties |-> [type |-> StrV("liability"),
                                         limit |-> IntV(500000)]]
      [] id = "cov2" -> [id |-> id, labels |-> {"Coverage"},
                         properties |-> [type |-> StrV("collision"),
                                         limit |-> IntV(500000)]]
      [] OTHER       -> [id |-> id, labels |-> {"Insured"},
                         properties |-> [id_number |-> StrV("U5001"),
                                         name |-> StrV("John Doe")]]

EdgeOrder ==
    << <<"pol1", "cov1", "HAS_COVERAGE">>,
       <<"pol1", "cov2", "HAS_COVERAGE">>,
       <<"pol2", "cov1", "HAS_COVERAGE">>,
       <<"cov1", "pol1", "HAS_COVERAGE">>,
       <<"pol1", "ins1", "INSURES">> >>
EdgeRecords == Range(EdgeOrder)

RECURSIVE SumLoads(_, _)
SumLoads(f, S) ==
    IF S = {} THEN 0
    ELSE LET e == CHOOSE x \in S : TRUE IN f[e] + SumLoads(f, S \ {e})

\* A node that add_edge creates for an endpoint that was never loaded.
ImplicitNode == [labels |-> {}, properties |-> EmptyDict]

\* knowledge_graph.add_node(node_id, labels=labels, properties=properties)
add_node(nodes, rec) ==
    [id \in DOMAIN nodes \cup {rec.id} |->
        IF id = rec.id THEN [labels |-> rec.labels, properties |-> rec.properties]
        ELSE nodes[id]]

\* The node table after add_edge(source, target, ...): missing endpoints appear.
add_edge_nodes(nodes, e) ==
    [id \in DOMAIN nodes \cup {e[1], e[2]} |->
        IF id \in DOMAIN nodes THEN nodes[id] ELSE ImplicitNode]

\* The keyed edges after add_edge(source, target, key=rel_type, ...): an edge
\* with the same source, target and key is the same edge, its data replaced.
add_edge(edges, e) == edges \cup {e}


-----------------------------------------------------------------------------
(* build_graph_query: (intent, params) -> graph-query specification.       *)

SimpleFilter(node, property, operator, value) ==
    [node |-> node, property |-> property, operator |-> operator, value |-> value]

ReturnProp(node, property) == [node |-> node, property |-> property]

StartNode(label, alias) == [label |-> label, alias |-> alias]

PathStep(fromAlias, fromLabel, relType, direction, toAlias, toLabel) ==
    [from |-> [alias |-> fromAlias, label |-> fromLabel],
     relationship |-> [type |-> relType, direction |-> direction],
     to |-> [alias |-> toAlias, label |-> toLabel]]

\* "if 'k' in params: filters.append({node, property, '=', params['k']})"
FilterIfPresent(p, key, node, property) ==
    IF key \in DOMAIN p THEN <<SimpleFilter(node, property, "=", p[key])>> ELSE <<>>

\* CoverageTypeFilters with the conditions naming an alias nothing introduces.
CoverageTypeFiltersOtherAlias(p) ==
    IF "coverage_types" \in DOMAIN p /\ p["coverage_types"] # <<>>
    THEN << [operator |-> "OR",
             conditions |-> [k \in 1..Len(p["coverage_types"]) |->
                                SimpleFilter("cov", "type", "=", p["coverage_types"][k])]] >>
    ELSE <<>>

\* GraphRAGQueryProcessor.build_graph_query, the coverage_inquiry branch with
\* the OR group over the requested coverage types.
CoverageTypeFilters(p) ==
    IF "coverage_types" \in DOMAIN p /\ p["coverage_types"] # <<>>
    THEN << [operator |-> "OR",
             conditions |-> [k \in 1..Len(p["coverage_types"]) |->
                                SimpleFilter("c", "type", "=", p["coverage_types"][k])]] >>
    ELSE <<>>

build_graph_query(i, p) ==
    LET hasUser == "user_id" \in DOMAIN p IN
    CASE i = "policy_details" ->
           [start_nodes |-> <<StartNode("Policy", "p")>>,
            paths |-> IF hasUser
                      THEN <<PathStep("p", "Policy", "INSURES", "outgoing", "i", "Insured")>>
                      ELSE <<>>,
            return_properties |->
                <<ReturnProp("p", "policy_number"), ReturnProp("p", "effective_date"),
                  ReturnProp("p", "expiration_date"), ReturnProp("p", "status"),
                  ReturnProp("p", "type")>>
                \o (IF hasUser THEN <<ReturnProp("i", "name")>> ELSE <<>>),
            filters |-> FilterIfPresent(p, "policy_number", "p", "policy_number")
                        \o FilterIfPresent(p, "policy_type", "p", "type")
                        \o FilterIfPresent(p, "user_id", "i", "id_number")]
      [] i = "coverage_inquiry" ->
           [start_nodes |-> <<StartNode("Policy", "p")>>,
            paths |-> <<PathStep("p", "Policy", "HAS_COVERAGE", "outgoing", "c", "Coverage")>>,
            return_properties |->
                <<ReturnProp("p", "policy_number"), ReturnProp("c", "type"),
                  ReturnProp("c", "limit"), ReturnProp("c", "deductible")>>,
            filters |-> FilterIfPresent(p, "policy_number", "p", "policy_number")
                        \o CoverageTypeFilters(p)]
      [] i = "claim_status" ->
           [start_nodes |-> IF hasUser THEN <<StartNode("Insured", "i")>>
                            ELSE <<StartNode("Claim", "c")>>,
            paths |-> IF hasUser
                      THEN <<PathStep("i", "Insured", "FILES_CLAIM", "outgoing", "c", "Claim")>>
                      ELSE <<>>,
            return_properties |->
                <<ReturnProp("c", "claim_number"), ReturnProp("c", "date_of_loss"),
                  ReturnProp("c", "status"), ReturnProp("c", "amount")>>,
            filters |-> FilterIfPresent(p, "claim_number", "c", "claim_number")
                        \o FilterIfPresent(p, "user_id", "i", "id_number")]
      [] i = "premium_information" ->
           [start_nodes |-> <<StartNode("Policy", "p")>>,
            paths |-> <<PathStep("p", "Policy", "HAS_PREMIUM", "outgoing", "pr", "Premium")>>
                      \o (IF hasUser
                          THEN <<PathStep("p", "Policy", "INSURES", "outgoing", "i", "Insured")>>
                          ELSE <<>>),
            return_properties |->
                <<ReturnProp("p", "policy_number"), ReturnProp("pr", "amount"),
                  ReturnProp("pr", "payment_frequency"), ReturnProp("pr", "due_date")>>,
            filters |-> FilterIfPresent(p, "policy_number", "p", "policy_number")
                        \o FilterIfPresent(p, "user_id", "i", "id_number")]
      [] i = "filing_claim" ->
           [start_nodes |-> <<>>, paths |-> <<>>, return_properties |-> <<>>,
            filters |-> <<>>, is_procedural |-> TRUE,
            procedural_data |-> [required_info |-> "policy information",
                                 contact_info |-> "1-800-555-CLAIM"]]
      [] OTHER ->
           [start_nodes |-> <<StartNode("Policy", "p")>>, paths |-> <<>>,
            return_properties |-> <<ReturnProp("p", "policy_number")>>,
            filters |-> <<>>]

\* EnhancedGraphRAGQueryProcessor.build_graph_query: definition_inquiry is
\* handled here, every other intent by the base class.
enhanced_build_graph_query(i, p) ==
    IF i = "definition_inquiry"
    THEN LET term == IF "term" \in DOMAIN p THEN p["term"] ELSE StrV("") IN
         IF term = StrV("")
         THEN [start_nodes |-> <<StartNode("Definition", "d")>>,
               return_properties |-> <<ReturnProp("d", "term"), ReturnProp("d", "meaning")>>]
         ELSE [start_nodes |-> <<StartNode("Definition", "d")>>,
               return_properties |-> <<ReturnProp("d", "term"), ReturnProp("d", "meaning")>>,
               filters |-> << [operator |-> "OR",
                               conditions |->
                                 <<SimpleFilter("d", "term", "=", term),
                                   SimpleFilter("d", "term", "=", StrV(Lower(term.s))),
                                   SimpleFilter("d", "term", "CONTAINS", term),
                                   SimpleFilter("d", "aliases", "CONTAINS", term)>>] >>]
    ELSE build_graph_query(i, p)

\* graph_query.get(key, []) for the list-valued keys of a specification.
QList(q, key) == IF key \in DOMAIN q THEN q[key] ELSE <<>>

-----------------------------------------------------------------------------
(* The requests the front end is driven with.                              *)

Intents == {"policy_details", "coverage_inquiry", "claim_status",
            "premium_information", "filing_claim", "definition_inquiry", "unknown"}

ParamKeys == {"policy_number", "policy_type", "claim_number", "user_id",
              "coverage_types", "term"}

\* The values a parameter may take; choice 0 is "the key is absent".
ParamOptions(k) ==
    CASE k = "policy_number"  -> <<StrV("P1001"), StrV("p1001")>>
      [] k = "policy_type"    -> <<StrV("auto")>>
      [] k = "claim_number"   -> <<StrV("CL4001")>>
      [] k = "user_id"        -> <<StrV("U5001"), StrV("u5001")>>
      [] k = "coverage_types" -> << <<>>, <<StrV("collision")>>,
                                    <<StrV("liability"), StrV("collision")>> >>
      [] OTHER                -> <<StrV(""), StrV("Deductible")>>

ParamChoices == {c \in [ParamKeys -> 0..3] : \A k \in ParamKeys : c[k] <= Len(ParamOptions(k))}

\* The combinations the builders are run over: every key absent or present,
\* coverage_types also empty, term also the empty string.
BuildChoices ==
    {c \in ParamChoices :
        \A k \in ParamKeys : \/ c[k] \in {0, Len(ParamOptions(k))}
                             \/ k \in {"coverage_types", "term"} /\ c[k] = 1}

ParamsOf(c) == [k \in {x \in ParamKeys : c[x] # 0} |-> ParamOptions(k)[c[k]]]

NoQuery == [none |-> TRUE]
NoResult == [none |-> TRUE]


-----------------------------------------------------------------------------
(* execute_graph_query.  An operator that may hit a Python exception       *)
(* yields "fault"; the try/except of execute_graph_query turns a fault     *)
(* into the error dictionary.                                              *)

\* The comparison of the start-node filter loop: "pass", "fail", or "fault"
\* (int > str is a TypeError).  An operator that is none of = != > < passes.
StartCompare(operator, property_value, filter_value) ==
    CASE operator = "=" ->
           IF property_value.kind = "str" /\ filter_value.kind = "str"
           THEN (IF Lower(property_value.s) # Lower(filter_value.s) THEN "fail" ELSE "pass")
           ELSE (IF property_value # filter_value THEN "fail" ELSE "pass")
      [] operator = "!=" -> IF property_value = filter_value THEN "fail" ELSE "pass"
      [] operator = ">" ->
           IF property_value.kind # "int" THEN "fail"
           ELSE IF filter_value.kind # "int" THEN "fault"
           ELSE IF property_value.n > filter_value.n THEN "pass" ELSE "fail"
      [] operator = "<" ->
           IF property_value.kind # "int" THEN "fail"
           ELSE IF filter_value.kind # "int" THEN "fault"
           ELSE IF property_value.n < filter_value.n THEN "pass" ELSE "fail"
      [] OTHER -> "pass"

\* PathCompare comparing strings as the start-node loop does.
PathCompareAnyCase(operator, property_value, filter_value) ==
    StartCompare(operator, property_value, filter_value)

\* The comparison of the connected-node filter loop: '=' is plain equality.
PathCompare(operator, property_value, filter_value) ==
    CASE operator = "=" -> IF property_value # filter_value THEN "fail" ELSE "pass"
      [] operator = "!=" -> IF property_value = filter_value THEN "fail" ELSE "pass"
      [] operator = ">" ->
           IF property_value.kind # "int" THEN "fail"
           ELSE IF filter_value.kind # "int" THEN "fault"
           ELSE IF property_value.n > filter_value.n THEN "pass" ELSE "fail"
      [] operator = "<" ->
           IF property_value.kind # "int" THEN "fail"
           ELSE IF filter_value.kind # "int" THEN "fault"
           ELSE IF property_value.n < filter_value.n THEN "pass" ELSE "fail"
      [] OTHER -> "pass"

\* A filter the loops skip for the node bound to alias: it names another
\* node (a compound filter has no 'node' key, so .get('node') is None), it
\* has no operator, or its operator is AND / OR.
SkippedFilter(f, alias) ==
    \/ Get(f, "node") # alias
    \/ "operator" \notin DOMAIN f
    \/ f["operator"] \in {"AND", "OR"}

\* "matches" after one comparison: a failure breaks out of the filter loop.
AndThen(r, rest) == IF r = "pass" THEN rest ELSE r

\* "matches" of one node against every applicable filter, with the break at
\* the first failure: "pass", "fail" or "fault".
RECURSIVE NodeMatches(_, _, _, _)
NodeMatches(filters, alias, props, stage) ==
    IF filters = <<>> THEN "pass"
    ELSE IF SkippedFilter(Head(filters), alias)
    THEN NodeMatches(Tail(filters), alias, props, stage)
    ELSE IF Get(Head(filters), "property") \notin DOMAIN props THEN "fail"
    ELSE AndThen(IF stage = "start"
                 THEN StartCompare(Head(filters)["operator"],
                                   props[Head(filters)["property"]],
                                   Head(filters)["value"])
                 ELSE PathCompare(Head(filters)["operator"],
                                  props[Head(filters)["property"]],
                                  Head(filters)["value"]),
                 NodeMatches(Tail(filters), alias, props, stage))

\* The ids (in order) whose verdict is "pass", and whether a comparison
\* faulted on the way.
KeepMatches(ids, verdict) ==
    [fault |-> \E k \in 1..Len(ids) : verdict[k] = "fault",
     nodes |-> Concat([k \in 1..Len(ids) |->
                          IF verdict[k] = "pass" THEN <<ids[k]>> ELSE <<>>])]

\* One filter loop over a list of candidate nodes.
FilterNodes(nodes, filters, alias, ids, stage) ==
    KeepMatches(ids, [k \in 1..Len(ids) |->
                         NodeMatches(filters, alias, nodes[ids[k]].properties, stage)])

\* MatchingNodes without the label test: every node is a start node.
MatchingNodesAnyLabel(nodes, label) == Keep(NodeOrder, DOMAIN nodes)

\* "Find nodes with matching label" over knowledge_graph.nodes(data=True).
MatchingNodes(nodes, label) ==
    Keep(NodeOrder, {id \in DOMAIN nodes : label \in nodes[id].labels})

\* The far ends of the keyed edges of one type leaving from_id.
OutNeighbours(edges, from_id, rel_type) ==
    [k \in 1..Len(Keep(EdgeOrder, {e \in edges : e[1] = from_id /\ e[3] = rel_type})) |->
        Keep(EdgeOrder, {e \in edges : e[1] = from_id /\ e[3] = rel_type})[k][2]]

\* The far ends of the keyed edges of one type entering from_id.
InNeighbours(edges, from_id, rel_type) ==
    [k \in 1..Len(Keep(EdgeOrder, {e \in edges : e[2] = from_id /\ e[3] = rel_type})) |->
        Keep(EdgeOrder, {e \in edges : e[2] = from_id /\ e[3] = rel_type})[k][1]]

\* The neighbours followed from from_id: one entry per keyed edge of the
\* type, outgoing, incoming, or (any other direction) both lists in a row.
ConnectedNodes(edges, from_id, rel_type, rel_direction) ==
    IF rel_direction = "outgoing" THEN OutNeighbours(edges, from_id, rel_type)
    ELSE IF rel_direction = "incoming" THEN InNeighbours(edges, from_id, rel_type)
    ELSE OutNeighbours(edges, from_id, rel_type) \o InNeighbours(edges, from_id, rel_type)

\* path_spec['from']['alias'], ['to']['alias'], ['relationship']['type'] and
\* ['relationship']['direction'] are read at the head of a step.
StepHeadKeys(path_spec) ==
    /\ {"from", "to", "relationship"} \subseteq DOMAIN path_spec
    /\ "alias" \in DOMAIN path_spec["from"]
    /\ "alias" \in DOMAIN path_spec["to"]
    /\ {"type", "direction"} \subseteq DOMAIN path_spec["relationship"]

\* NewPaths with a new_path for the first surviving node only.
NewPathsFirstOnly(current_path, to_alias, filtered) ==
    [fault |-> filtered.fault,
     paths |-> [k \in 1..(IF filtered.nodes = <<>> THEN 0 ELSE 1) |->
         [nodes |-> [a \in DOMAIN current_path.nodes \cup {to_alias} |->
                        IF a = to_alias THEN filtered.nodes[k]
                        ELSE current_path.nodes[a]],
          path |-> Append(current_path.path, <<to_alias, filtered.nodes[k]>>)]]]

\* new_path for every connected node that passed the label and the filters.
NewPaths(current_path, to_alias, filtered) ==
    [fault |-> filtered.fault,
     paths |-> [k \in 1..Len(filtered.nodes) |->
         [nodes |-> [a \in DOMAIN current_path.nodes \cup {to_alias} |->
                        IF a = to_alias THEN filtered.nodes[k]
                        ELSE current_path.nodes[a]],
          path |-> Append(current_path.path, <<to_alias, filtered.nodes[k]>>)]]]

\* The bindings one current path is extended to by a step.
ExtendPath(nodes, edges, filters, current_path, path_spec) ==
    IF path_spec["from"]["alias"] \notin DOMAIN current_path.nodes
    THEN [fault |-> FALSE, paths |-> <<>>]
    ELSE IF "label" \notin DOMAIN path_spec["to"]
    THEN [fault |-> TRUE, paths |-> <<>>]
    ELSE NewPaths(current_path, path_spec["to"]["alias"],
             FilterNodes(nodes, filters, path_spec["to"]["alias"],
                 Keep(ConnectedNodes(edges,
                                     current_path.nodes[path_spec["from"]["alias"]],
                                     path_spec["relationship"]["type"],
                                     path_spec["relationship"]["direction"]),
                      {id \in DOMAIN nodes : path_spec["to"]["label"] \in nodes[id].labels}),
                 "path"))

\* next_paths: the extensions of every current path, in order.
NextPaths(ext) ==
    [fault |-> \E k \in 1..Len(ext) : ext[k].fault,
     paths |-> Concat([k \in 1..Len(ext) |-> ext[k].paths])]

\* PathStepRun with next_paths started from current_paths instead of []:
\* every current path is kept next to its extensions.
PathStepRunKeeping(nodes, edges, filters, current_paths, path_spec) ==
    IF ~StepHeadKeys(path_spec) THEN [fault |-> TRUE, paths |-> <<>>]
    ELSE NextPaths([k \in 1..Len(current_paths) |->
             [fault |-> ExtendPath(nodes, edges, filters, current_paths[k], path_spec).fault,
              paths |-> <<current_paths[k]>>
                        \o ExtendPath(nodes, edges, filters, current_paths[k],
                                      path_spec).paths]])

\* One pass of "for path_spec in paths": next_paths replaces current_paths.
PathStepRun(nodes, edges, filters, current_paths, path_spec) ==
    IF ~StepHeadKeys(path_spec) THEN [fault |-> TRUE, paths |-> <<>>]
    ELSE NextPaths([k \in 1..Len(current_paths) |->
                       ExtendPath(nodes, edges, filters, current_paths[k], path_spec)])

\* The whole loop over the path steps, with len(current_paths) after each.
RECURSIVE RunPaths(_, _, _, _, _, _)
RECURSIVE RunOn(_, _, _, _, _, _)
RunPaths(nodes, edges, filters, current_paths, steps, counts) ==
    IF steps = <<>> THEN [fault |-> FALSE, paths |-> current_paths, counts |-> counts]
    ELSE RunOn(nodes, edges, filters,
               PathStepRun(nodes, edges, filters, current_paths, Head(steps)),
               Tail(steps), counts)

\* "current_paths = next_paths", then the next step.
RunOn(nodes, edges, filters, r, steps, counts) ==
    IF r.fault THEN [fault |-> TRUE, paths |-> <<>>, counts |-> counts]
    ELSE RunPaths(nodes, edges, filters, r.paths, steps, Append(counts, Len(r.paths)))

\* The values a list of nodes gives for one return property, in order.
ValuesOf(nodes, ids, prop_name) ==
    Concat([k \in 1..Len(ids) |->
               IF prop_name \in DOMAIN nodes[ids[k]].properties
               THEN <<nodes[ids[k]].properties[prop_name]>> ELSE <<>>])

\* The no-path case: properties aggregated over every filtered start set.
StartProjection(nodes, q, filtered_start_nodes) ==
    LET rp == QList(q, "return_properties")
        valuesFor(key) ==
            Concat([s \in 1..Len(filtered_start_nodes) |->
                      IF filtered_start_nodes[s].alias = key[1]
                      THEN ValuesOf(nodes, filtered_start_nodes[s].nodes, key[2])
                      ELSE <<>>])
        keys == {key \in {<<Get(rp[k], "node"), Get(rp[k], "property")>> : k \in 1..Len(rp)} :
                    valuesFor(key) # <<>>}
    IN  [key \in keys |-> Dedup(valuesFor(key))]

\* result_properties of one final path: 'alias.property' -> value.
PathProperties(nodes, q, path) ==
    LET rp == QList(q, "return_properties")
        keys == {key \in {<<Get(rp[k], "node"), Get(rp[k], "property")>> : k \in 1..Len(rp)} :
                    /\ key[1] \in DOMAIN path.nodes
                    /\ key[2] \in DOMAIN nodes[path.nodes[key[1]]].properties}
    IN  [key \in keys |-> nodes[path.nodes[key[1]]].properties[key[2]]]

\* "Combine results": each key's values over the result paths, deduplicated.
CombineProperties(result_paths) ==
    LET keys == UNION {DOMAIN result_paths[k].properties : k \in 1..Len(result_paths)}
    IN  [key \in keys |->
            Dedup(Concat([k \in 1..Len(result_paths) |->
                             IF key \in DOMAIN result_paths[k].properties
                             THEN <<result_paths[k].properties[key]>> ELSE <<>>]))]

\* "results" as initialised at the head of execute_graph_query.
EmptyResults ==
    [nodes |-> <<>>, properties |-> EmptyDict, count |-> 0, matched_filters |-> EmptyDict]

ErrorResults == [count |-> 0, properties |-> EmptyDict, error |-> "error"]

\* "Find start nodes": every start_nodes entry with the nodes of its label.
ResolveStartNodes(nodes, q) ==
    [k \in 1..Len(QList(q, "start_nodes")) |->
        [alias |-> Get(QList(q, "start_nodes")[k], "alias"),
         nodes |-> MatchingNodes(nodes, Get(QList(q, "start_nodes")[k], "label"))]]

\* "If no paths specified, just return the filtered start nodes".
NoPathResults(nodes, q, filtered_start_nodes) ==
    [fault |-> FALSE,
     counts |-> <<Len(filtered_start_nodes[1].nodes)>>,
     value |-> [nodes |-> <<>>,
                properties |-> StartProjection(nodes, q, filtered_start_nodes),
                count |-> Len(filtered_start_nodes[1].nodes),
                matched_filters |-> EmptyDict]]

\* "Initialize paths with start nodes": one path per filtered first-entry node.
InitialPaths(alias, ids) ==
    [k \in 1..Len(ids) |->
        [nodes |-> [a \in {alias} |-> ids[k]],
         path |-> << <<alias, ids[k]>> >>]]

\* The results dictionary built from the result paths.
PathResults(counts, result_paths) ==
    [fault |-> FALSE, counts |-> counts,
     value |-> [nodes |-> <<>>,
                properties |-> CombineProperties(result_paths),
                count |-> Len(result_paths),
                matched_filters |-> EmptyDict,
                paths |-> result_paths]]

\* "If no paths found, return empty results", else "Extract requested
\* properties" from every final path.
ProjectRun(nodes, q, run) ==
    IF run.fault THEN [fault |-> TRUE, counts |-> <<>>, value |-> NoResult]
    ELSE IF run.paths = <<>>
    THEN [fault |-> FALSE, counts |-> run.counts, value |-> EmptyResults]
    ELSE PathResults(run.counts,
                     [k \in 1..Len(run.paths) |->
                         [nodes |-> run.paths[k].nodes,
                          properties |-> PathProperties(nodes, q, run.paths[k])]])

\* "Follow paths" from the initial paths.
FollowPaths(nodes, edges, q, initial) ==
    ProjectRun(nodes, q,
               RunPaths(nodes, edges, QList(q, "filters"), initial, QList(q, "paths"),
                        <<Len(initial)>>))

\* What follows "Apply filters to start nodes".
AfterStartFilters(nodes, edges, q, start_nodes, filt) ==
    IF \E k \in 1..Len(start_nodes) : filt[k].fault
    THEN [fault |-> TRUE, counts |-> <<>>, value |-> NoResult]
    ELSE IF QList(q, "paths") = <<>>
    THEN NoPathResults(nodes, q, [k \in 1..Len(start_nodes) |->
                                     [alias |-> start_nodes[k].alias,
                                      nodes |-> filt[k].nodes]])
    ELSE FollowPaths(nodes, edges, q, InitialPaths(start_nodes[1].alias, filt[1].nodes))

\* What follows "Find start nodes".
AfterStartNodes(nodes, edges, q, start_nodes) ==
    IF start_nodes = <<>> \/ start_nodes[1].nodes = <<>>
    THEN [fault |-> FALSE, counts |-> <<>>, value |-> EmptyResults]
    ELSE AfterStartFilters(nodes, edges, q, start_nodes,
             [k \in 1..Len(start_nodes) |->
                 FilterNodes(nodes, QList(q, "filters"), start_nodes[k].alias,
                             start_nodes[k].nodes, "start")])

\* The body of the try block: [fault, value, counts].
ExecuteBody(nodes, edges, q) ==
    IF GetD(q, "is_procedural", FALSE)
    THEN [fault |-> FALSE, counts |-> <<>>,
          value |-> [type |-> "procedural", data |-> GetD(q, "procedural_data", EmptyDict)]]
    ELSE AfterStartNodes(nodes, edges, q, ResolveStartNodes(nodes, q))

\* execute_graph_query without its handler: a fault leaves as an exception.
Propagate(body) ==
    IF body.fault
    THEN [raised |-> TRUE, value |-> NoResult, counts |-> <<>>]
    ELSE [raised |-> FALSE, value |-> body.value, counts |-> body.counts]

\* The "except Exception" handler around the body.
Handle(body) ==
    IF body.fault
    THEN [raised |-> FALSE, value |-> ErrorResults, counts |-> <<>>]
    ELSE [raised |-> FALSE, value |-> body.value, counts |-> body.counts]

\* execute_graph_query: the try block and its "except Exception" handler.
execute_graph_query(nodes, edges, q) == Handle(ExecuteBody(nodes, edges, q))


-----------------------------------------------------------------------------
(* The graph-query specifications handed to execute_graph_query directly   *)
(* (as test_execute_graph_query does), well formed and not.                *)

DirectQueries ==
    { \* two hops: Policy -> Coverage, then back to every Policy holding it
      [start_nodes |-> <<StartNode("Policy", "p")>>,
       paths |-> <<PathStep("p", "Policy", "HAS_COVERAGE", "outgoing", "c", "Coverage"),
                   PathStep("c", "Coverage", "HAS_COVERAGE", "incoming", "q", "Policy")>>,
       filters |-> <<>>,
       return_properties |-> <<ReturnProp("p", "policy_number"), ReturnProp("c", "type"),
                               ReturnProp("c", "limit"), ReturnProp("q", "type")>>],
      \* both directions from a Coverage
      [start_nodes |-> <<StartNode("Coverage", "c")>>,
       paths |-> <<PathStep("c", "Coverage", "HAS_COVERAGE", "both", "p", "Policy")>>,
       filters |-> <<SimpleFilter("p", "type", "!=", StrV("home"))>>,
       return_properties |-> <<ReturnProp("p", "type"), ReturnProp("c", "type")>>],
      \* a path step without its 'relationship' key
      [start_nodes |-> <<StartNode("Policy", "p")>>,
       paths |-> << [from |-> [alias |-> "p", label |-> "Policy"],
                     to |-> [alias |-> "c", label |-> "Coverage"]] >>,
       filters |-> <<>>,
       return_properties |-> <<ReturnProp("c", "type")>>],
      \* a path step from an alias nothing binds
      [start_nodes |-> <<StartNode("Policy", "p")>>,
       paths |-> <<PathStep("x", "Policy", "HAS_COVERAGE", "outgoing", "c", "Coverage")>>,
       filters |-> <<>>,
       return_properties |-> <<ReturnProp("c", "type")>>],
      \* no paths, a numeric filter
      [start_nodes |-> <<StartNode("Coverage", "c")>>,
       filters |-> <<SimpleFilter("c", "limit", ">", IntV(100000))>>,
       return_properties |-> <<ReturnProp("c", "type"), ReturnProp("c", "limit")>>],
      \* no paths, a numeric filter given a string: int > str
      [start_nodes |-> <<StartNode("Coverage", "c")>>,
       filters |-> <<SimpleFilter("c", "limit", ">", StrV("high"))>>,
       return_properties |-> <<ReturnProp("c", "type")>>],
      \* no start_nodes entry
      [start_nodes |-> <<>>,
       filters |-> <<>>,
       return_properties |-> <<ReturnProp("p", "policy_number")>>],
      \* a start label no node carries
      [start_nodes |-> <<StartNode("Vehicle", "v")>>,
       paths |-> <<PathStep("v", "Vehicle", "HAS_COVERAGE", "outgoing", "c", "Coverage")>>,
       filters |-> <<>>,
       return_properties |-> <<ReturnProp("v", "vin")>>],
      \* '=' filters whose values differ in case from the stored ones, on the
      \* start node and on the node a step leads to
      [start_nodes |-> <<StartNode("Coverage", "c")>>,
       paths |-> <<PathStep("c", "Coverage", "HAS_COVERAGE", "incoming", "p", "Policy")>>,
       filters |-> <<SimpleFilter("c", "type", "=", StrV("Liability")),
                     SimpleFilter("p", "policy_number", "=", StrV("p1001"))>>,
       return_properties |-> <<ReturnProp("p", "policy_number"), ReturnProp("c", "type")>>],
      \* two start entries, no paths
      [start_nodes |-> <<StartNode("Policy", "p"), StartNode("Coverage", "c")>>,
       filters |-> <<SimpleFilter("c", "type", "=", StrV("Liability"))>>,
       return_properties |-> <<ReturnProp("p", "type"), ReturnProp("c", "limit")>>] }

\* The (intent, parameter choice) requests run against the store.
Choice(pn, uid, ct) ==
    [k \in ParamKeys |-> CASE k = "policy_number" -> pn
                           [] k = "user_id" -> uid
                           [] k = "coverage_types" -> ct
                           [] OTHER -> 0]

ExecRequests ==
    { <<"coverage_inquiry", Choice(1, 0, 0)>>, <<"coverage_inquiry", Choice(2, 0, 0)>>,
      <<"coverage_inquiry", Choice(1, 0, 2)>>, <<"coverage_inquiry", Choice(0, 0, 3)>>,
      <<"coverage_inquiry", Choice(0, 0, 0)>>,
      <<"policy_details", Choice(1, 0, 0)>>, <<"policy_details", Choice(0, 1, 0)>>,
      <<"policy_details", Choice(0, 2, 0)>>,
      <<"filing_claim", Choice(0, 0, 0)>>, <<"unknown", Choice(0, 0, 0)>> }

-----------------------------------------------------------------------------
(* Operations of the query processor.                                      *)

InitQueryVars ==
    /\ kg_nodes = EmptyDict
    /\ kg_edges = {}
    /\ edge_loads = [e \in EdgeRecords |-> 0]
    /\ graph_query = NoQuery
    /\ built = FALSE
    /\ results = NoResult
    /\ raised = FALSE
    /\ path_counts = <<>>
    /\ intent = None
    /\ params = EmptyDict

\* A call in progress is over once the store is loaded again.
ForgetCall ==
    /\ graph_query' = NoQuery
    /\ built' = FALSE
    /\ results' = NoResult
    /\ raised' = FALSE
    /\ path_counts' = <<>>
    /\ intent' = None
    /\ params' = EmptyDict

\* _load_knowledge_graph, one node record of graph_data['nodes'].
LoadNode(id) ==
    /\ kg_nodes' = add_node(kg_nodes, NodeRecord(id))
    /\ UNCHANGED <<kg_edges, edge_loads>>
    /\ ForgetCall
    /\ UNCHANGED <<schemaVars, frontVars>>

\* _load_knowledge_graph, one edge record of graph_data['edges'].
LoadEdge(e) ==
    /\ SumLoads(edge_loads, EdgeRecords) < MaxEdgeRecords
    /\ kg_edges' = add_edge(kg_edges, e)
    /\ kg_nodes' = add_edge_nodes(kg_nodes, e)
    /\ edge_loads' = [edge_loads EXCEPT ![e] = @ + 1]
    /\ ForgetCall
    /\ UNCHANGED <<schemaVars, frontVars>>

\* GraphRAGQueryProcessor.build_graph_query(intent, params).
BuildGraphQuery(i, c) ==
    /\ intent' = i
    /\ params' = ParamsOf(c)
    /\ graph_query' = build_graph_query(i, ParamsOf(c))
    /\ built' = TRUE
    /\ results' = NoResult
    /\ raised' = FALSE
    /\ path_counts' = <<>>
    /\ UNCHANGED <<kg_nodes, kg_edges, edge_loads>>
    /\ UNCHANGED <<schemaVars, frontVars>>

\* EnhancedGraphRAGQueryProcessor.build_graph_query(intent, params).
EnhancedBuildGraphQuery(i, c) ==
    /\ intent' = i
    /\ params' = IF i = "definition_inquiry" /\ GetD(ParamsOf(c), "term", StrV("")) # StrV("")
                 THEN Put(ParamsOf(c), "original_term", ParamsOf(c)["term"])
                 ELSE ParamsOf(c)
    /\ graph_query' = enhanced_build_graph_query(i, ParamsOf(c))
    /\ built' = TRUE
    /\ results' = NoResult
    /\ raised' = FALSE
    /\ path_counts' = <<>>
    /\ UNCHANGED <<kg_nodes, kg_edges, edge_loads>>
    /\ UNCHANGED <<schemaVars, frontVars>>

\* A caller hands its own specification to execute_graph_query.
SubmitQuery(q) ==
    /\ graph_query' = q
    /\ built' = FALSE
    /\ intent' = None
    /\ params' = EmptyDict
    /\ results' = NoResult
    /\ raised' = FALSE
    /\ path_counts' = <<>>
    /\ UNCHANGED <<kg_nodes, kg_edges, edge_loads>>
    /\ UNCHANGED <<schemaVars, frontVars>>

\* execute_graph_query(graph_query) on the current knowledge graph.
ExecuteGraphQuery ==
    /\ graph_query # NoQuery
    /\ results = NoResult
    /\ ~raised
    /\ LET r == execute_graph_query(kg_nodes, kg_edges, graph_query)
       IN  /\ results' = r.value
           /\ raised' = r.raised
           /\ path_counts' = r.counts
    /\ UNCHANGED <<kg_nodes, kg_edges, edge_loads, graph_query, built, intent, params>>
    /\ UNCHANGED <<schemaVars, frontVars>>


-----------------------------------------------------------------------------
(* SelfEvolvingGraphSchema.  The schema graph is a networkx DiGraph: one   *)
(* edge per ordered pair of nodes, nodes and edges iterated in insertion   *)
(* order.  Scores are exact fractions <<numerator, denominator>>.          *)

RECURSIVE GCD(_, _)
GCD(a, b) == IF b = 0 THEN a ELSE GCD(b, a % b)

Frac(n, d) == LET g == GCD(n, d) IN <<n \div g, d \div g>>
FracAdd(a, b) == Frac(a[1] * b[2] + b[1] * a[2], a[2] * b[2])
FracDivInt(a, k) == Frac(a[1], a[2] * k)
FracLeq(a, b) == a[1] * b[2] <= b[1] * a[2]
FracMin(a, b) == IF FracLeq(a, b) THEN a ELSE b
Zero == <<0, 1>>
One == <<1, 1>>

RECURSIVE FracSum(_)
FracSum(seq) == IF seq = <<>> THEN Zero ELSE FracAdd(Head(seq), FracSum(Tail(seq)))

PropDef(type, required, enum) == [type |-> type, required |-> required, enum |-> enum]

get_entity_types(S) == S.node_order

\* schema_graph.edges(data=True): by source node, then by insertion.
SchemaEdgesInOrder(S) ==
    Concat([k \in 1..Len(S.node_order) |->
               Keep(S.edge_order, {pr \in Range(S.edge_order) : pr[1] = S.node_order[k]})])

\* One dictionary per edge of the schema graph.
RelationshipRecords(S, es) ==
    [k \in 1..Len(es) |->
        [name |-> S.edges[es[k]].name, source |-> es[k][1], target |-> es[k][2],
         properties |-> S.edges[es[k]].properties,
         constraints |-> S.edges[es[k]].constraints]]

get_relationship_types(S) == RelationshipRecords(S, SchemaEdgesInOrder(S))

expected_entities == 15
expected_relationships == 25

\* nx.density of the directed schema graph: m / (n (n - 1)), 0 without edges
\* or with at most one node.
Density(S) ==
    LET n == Len(S.node_order)
        m == Len(S.edge_order)
    IN  IF m = 0 \/ n <= 1 THEN Zero ELSE Frac(m, n * (n - 1))

\* coverage: min(1.0, (entities / 15 + relationships / 25) / 2).
CoverageScore(entity_count, relationship_count) ==
    FracMin(One, FracDivInt(FracAdd(Frac(entity_count, expected_entities),
                                    Frac(relationship_count, expected_relationships)), 2))

\* required properties over properties of one entity type (0 without any).
PropertyCompleteness(props) ==
    IF Cardinality(DOMAIN props) > 0
    THEN Frac(Cardinality({x \in DOMAIN props : props[x].required}),
              Cardinality(DOMAIN props))
    ELSE Zero

\* consistency: sum(property_completeness) / max(1, len(property_completeness)).
ConsistencyScore(property_completeness) ==
    FracDivInt(FracSum(property_completeness),
               IF Len(property_completeness) > 1 THEN Len(property_completeness) ELSE 1)

\* The quality_scores dictionary; overall is the mean of the three scores.
QualityScores(coverage, consistency, connectivity) ==
    [coverage |-> coverage, consistency |-> consistency, connectivity |-> connectivity,
     overall |-> FracDivInt(FracAdd(FracAdd(coverage, consistency), connectivity), 3)]

calculate_quality_scores(S) ==
    [S EXCEPT !.quality_scores =
        QualityScores(
            CoverageScore(Len(get_entity_types(S)), Len(get_relationship_types(S))),
            ConsistencyScore([k \in 1..Len(S.node_order) |->
                                 PropertyCompleteness(S.nodes[S.node_order[k]].properties)]),
            IF Len(get_entity_types(S)) > 0 THEN Density(S) ELSE Zero)]

\* _update_schema_metrics: the counts of schema_metrics are derived from the
\* graph and not kept here; the call ends in _calculate_quality_scores.
update_schema_metrics(S) == calculate_quality_scores(S)

\* _record_schema_version numbering the record len(schema_versions), as
\* export_schema numbers the exported schema, instead of len + 1.
record_schema_version_unshifted(S, change_description) ==
    [S EXCEPT !.versions =
        Append(@, [version |-> Len(S.versions),
                   description |-> change_description,
                   entity_count |-> Len(get_entity_types(S)),
                   relationship_count |-> Len(get_relationship_types(S))])]

\* _record_schema_version (the timestamp is left out).
record_schema_version(S, change_description) ==
    [S EXCEPT !.versions =
        Append(@, [version |-> Len(S.versions) + 1,
                   description |-> change_description,
                   entity_count |-> Len(get_entity_types(S)),
                   relationship_count |-> Len(get_relationship_types(S))])]

\* add_entity_type without the "already exists" check: add_node on an
\* existing name replaces its data, and a version is recorded.
add_entity_type_unchecked(S, name, properties, constraints) ==
    [schema |->
        record_schema_version(
            update_schema_metrics(
                [S EXCEPT !.node_order = IF name \in Range(@) THEN @ ELSE Append(@, name),
                          !.nodes = Put(@, name, [type |-> "entity_type",
                                                  properties |-> properties,
                                                  constraints |-> constraints])]),
            <<"Added entity type", name>>),
     ret |-> TRUE]

\* The schema with the edge source_type -> target_type set to the
\* relationship type, as add_relationship_type leaves it.
WithRelationship(S, name, source_type, target_type, properties, constraints) ==
    record_schema_version(
        update_schema_metrics(
            [S EXCEPT !.edge_order =
                          IF <<source_type, target_type>> \in DOMAIN S.edges THEN @
                          ELSE Append(@, <<source_type, target_type>>),
                      !.edges = Put(@, <<source_type, target_type>>,
                                    [name |-> name,
                                     type |-> "relationship_type",
                                     properties |-> properties,
                                     constraints |-> constraints])]),
        <<"Added relationship type", name, source_type, target_type>>)

\* add_relationship_type without the two endpoint checks.
add_relationship_type_any_endpoint(S, name, source_type, target_type, properties, constraints) ==
    IF /\ <<source_type, target_type>> \in DOMAIN S.edges
       /\ S.edges[<<source_type, target_type>>].name = name
    THEN [schema |-> S, ret |-> FALSE]
    ELSE [schema |-> WithRelationship(S, name, source_type, target_type,
                                      properties, constraints),
          ret |-> TRUE]

\* add_relationship_type with the duplicate check on the pair alone.
add_relationship_type_once_per_pair(S, name, source_type, target_type, properties, constraints) ==
    IF source_type \notin Range(get_entity_types(S)) THEN [schema |-> S, ret |-> FALSE]
    ELSE IF target_type \notin Range(get_entity_types(S)) THEN [schema |-> S, ret |-> FALSE]
    ELSE IF <<source_type, target_type>> \in DOMAIN S.edges
    THEN [schema |-> S, ret |-> FALSE]
    ELSE [schema |-> WithRelationship(S, name, source_type, target_type,
                                      properties, constraints),
          ret |-> TRUE]

add_entity_type(S, name, properties, constraints) ==
    IF name \in Range(get_entity_types(S))
    THEN [schema |-> S, ret |-> FALSE]
    ELSE [schema |->
             record_schema_version(
                 update_schema_metrics(
                     [S EXCEPT !.node_order = Append(@, name),
                               !.nodes = Put(@, name, [type |-> "entity_type",
                                                       properties |-> properties,
                                                       constraints |-> constraints])]),
                 <<"Added entity type", name>>),
          ret |-> TRUE]

add_relationship_type(S, name, source_type, target_type, properties, constraints) ==
    IF source_type \notin Range(get_entity_types(S)) THEN [schema |-> S, ret |-> FALSE]
    ELSE IF target_type \notin Range(get_entity_types(S)) THEN [schema |-> S, ret |-> FALSE]
    ELSE IF /\ <<source_type, target_type>> \in DOMAIN S.edges
            /\ S.edges[<<source_type, target_type>>].name = name
    THEN [schema |-> S, ret |-> FALSE]
    ELSE [schema |-> WithRelationship(S, name, source_type, target_type,
                                      properties, constraints),
          ret |-> TRUE]

\* ---- the state after __init__ with no base schema file

NoEnum == {}
NoConstraints == EmptyDict

DefaultEntityTypes ==
    << [name |-> "Policy",
        properties |-> [policy_number |-> PropDef("string", TRUE, NoEnum),
                        effective_date |-> PropDef("date", TRUE, NoEnum),
                        expiration_date |-> PropDef("date", TRUE, NoEnum),
                        status |-> PropDef("string", FALSE, {"active", "expired", "cancelled"})]],
       [name |-> "Insured",
        properties |-> [name |-> PropDef("string", TRUE, NoEnum),
                        id_number |-> PropDef("string", TRUE, NoEnum),
                        date_of_birth |-> PropDef("date", FALSE, NoEnum),
                        contact_info |-> PropDef("object", FALSE, NoEnum)]],
       [name |-> "Coverage",
        properties |-> [type |-> PropDef("string", TRUE, NoEnum),
                        limit |-> PropDef("number", FALSE, NoEnum),
                        deductible |-> PropDef("number", FALSE, NoEnum)]],
       [name |-> "Claim",
        properties |-> [claim_number |-> PropDef("string", TRUE, NoEnum),
                        date_of_loss |-> PropDef("date", TRUE, NoEnum),
                        status |-> PropDef("string", FALSE,
                                           {"open", "under_review", "approved", "denied", "closed"}),
                        amount |-> PropDef("number", FALSE, NoEnum)]],
       [name |-> "Premium",
        properties |-> [amount |-> PropDef("number", TRUE, NoEnum),
                        payment_frequency |-> PropDef("string", FALSE,
                                                      {"monthly", "quarterly", "annually"}),
                        due_date |-> PropDef("date", FALSE, NoEnum)]],
       [name |-> "Definition",
        properties |-> [term |-> PropDef("string", TRUE, NoEnum),
                        meaning |-> PropDef("string", TRUE, NoEnum),
                        aliases |-> PropDef("array", FALSE, NoEnum)]] >>

DefaultRelationshipTypes ==
    << [name |-> "HAS_COVERAGE", source |-> "Policy", target |-> "Coverage",
        properties |-> [added_date |-> PropDef("date", FALSE, NoEnum)],
        constraints |-> [cardinality |-> "one_to_many"]],
       [name |-> "INSURES", source |-> "Policy", target |-> "Insured",
        properties |-> EmptyDict, constraints |-> [cardinality |-> "many_to_many"]],
       [name |-> "HAS_PREMIUM", source |-> "Policy", target |-> "Premium",
        properties |-> EmptyDict, constraints |-> [cardinality |-> "one_to_one"]],
       [name |-> "FILES_CLAIM", source |-> "Insured", target |-> "Claim",
        properties |-> [filing_date |-> PropDef("date", FALSE, NoEnum)],
        constraints |-> [cardinality |-> "one_to_many"]],
       [name |-> "RELATED_TO", source |-> "Claim", target |-> "Coverage",
        properties |-> EmptyDict, constraints |-> [cardinality |-> "many_to_many"]] >>

RECURSIVE AddEntityTypes(_, _)
AddEntityTypes(S, list) ==
    IF list = <<>> THEN S
    ELSE AddEntityTypes(add_entity_type(S, Head(list).name, Head(list).properties,
                                        NoConstraints).schema, Tail(list))

RECURSIVE AddRelationshipTypes(_, _)
AddRelationshipTypes(S, list) ==
    IF list = <<>> THEN S
    ELSE AddRelationshipTypes(
             add_relationship_type(S, Head(list).name, Head(list).source, Head(list).target,
                                   Head(list).properties, Head(list).constraints).schema,
             Tail(list))

initialize_default_schema(S) ==
    AddRelationshipTypes(AddEntityTypes(S, DefaultEntityTypes), DefaultRelationshipTypes)

\* __init__: the empty graph, the default schema, the first version record.
NewSchema ==
    record_schema_version(
        initialize_default_schema(
            [node_order |-> <<>>, nodes |-> EmptyDict,
             edge_order |-> <<>>, edges |-> EmptyDict,
             versions |-> <<>>,
             quality_scores |-> [coverage |-> Zero, consistency |-> Zero,
                                 connectivity |-> Zero]]),
        <<"Initial schema creation">>)


\* ---- export_schema and __init__ with a base schema file

\* The schema_data dictionary export_schema writes (the timestamp is left
\* out).  The file is JSON: the dictionary holds strings, booleans, numbers,
\* lists and string-keyed dictionaries, which json.load gives back as
\* json.dump was given them.
export_schema(S) ==
    [entity_types |->
        [k \in 1..Len(Keep(S.node_order,
                           {n \in Range(S.node_order) : S.nodes[n].type = "entity_type"})) |->
            [name |-> Keep(S.node_order,
                           {n \in Range(S.node_order) : S.nodes[n].type = "entity_type"})[k],
             properties |->
                 S.nodes[Keep(S.node_order,
                              {n \in Range(S.node_order) :
                                  S.nodes[n].type = "entity_type"})[k]].properties,
             constraints |->
                 S.nodes[Keep(S.node_order,
                              {n \in Range(S.node_order) :
                                  S.nodes[n].type = "entity_type"})[k]].constraints]],
     relationship_types |-> get_relationship_types(S),
     metadata |-> [version |-> Len(S.versions), quality_scores |-> S.quality_scores]]

\* "for entity_type in schema_data.get('entity_types', [])"
RECURSIVE LoadEntityTypes(_, _)
LoadEntityTypes(S, list) ==
    IF list = <<>> THEN S
    ELSE LoadEntityTypes(add_entity_type(S, Head(list).name, Head(list).properties,
                                         Head(list).constraints).schema, Tail(list))

\* _load_base_schema reading the relationship types before the entity types.
load_base_schema_relationships_first(S, schema_data) ==
    LoadEntityTypes(AddRelationshipTypes(S, schema_data.relationship_types),
                    schema_data.entity_types)

\* _load_base_schema on a file export_schema wrote: every key the loader
\* reads with [...] is there, so the except branch is not taken.
load_base_schema(S, schema_data) ==
    AddRelationshipTypes(LoadEntityTypes(S, schema_data.entity_types),
                         schema_data.relationship_types)

\* __init__(base_schema_path) with an existing file holding schema_data.
NewSchemaFrom(schema_data) ==
    record_schema_version(
        load_base_schema(
            [node_order |-> <<>>, nodes |-> EmptyDict,
             edge_order |-> <<>>, edges |-> EmptyDict,
             versions |-> <<>>,
             quality_scores |-> [coverage |-> Zero, consistency |-> Zero,
                                 connectivity |-> Zero]],
            schema_data),
        <<"Initial schema creation">>)

-----------------------------------------------------------------------------
(* analyze_instance_data and evolve_schema.  Confidence scores and the     *)
(* threshold are kept in tenths: min(1.0, count / 10.0) is min(10, count)  *)
(* tenths, min(1.0, count / 5.0) is min(10, 2 * count) tenths.             *)

Min(a, b) == IF a <= b THEN a ELSE b

\* "'date' in name.lower()", "'id' in ..." and "'number' in ..." for the
\* property names that occur in the model.
NameContains(name, part) ==
    CASE part = "date"   -> name \in {"effective_date", "expiration_date", "date_of_birth",
                                      "date_of_loss", "due_date", "added_date", "filing_date"}
      [] part = "id"     -> name \in {"id_number", "owner_id"}
      [] part = "number" -> name \in {"policy_number", "claim_number", "id_number"}
      [] OTHER -> FALSE

\* re.fullmatch of the three date patterns, on the strings of the model.
IsDateString(str) == str \in {"2020-01-01", "2023-01-01"}

\* _infer_property_type for str and int values.
infer_property_type(value) ==
    IF value.kind = "int" THEN "integer"
    ELSE IF IsDateString(value.s) THEN "date" ELSE "string"

\* str(value)
StrOf(value) == IF value.kind = "int" THEN ToString(value.n) ELSE value.s

\* property_sets[label][prop_name] (rel_patterns[...]['properties'][...]):
\* count, observed types and sample values over the given records.  The
\* model's batches stay under the cap on sample values (10, resp. 5).
PropertyData(records, prop_name) ==
    LET having == {k \in 1..Len(records) : prop_name \in DOMAIN records[k].properties}
    IN  [count |-> Cardinality(having),
         types |-> {infer_property_type(records[k].properties[prop_name]) : k \in having},
         values |-> {StrOf(records[k].properties[prop_name]) : k \in having}]

PropertyNames(records) == UNION {DOMAIN records[k].properties : k \in 1..Len(records)}

min_entity_property_count == 3
min_relationship_property_count == 2
required_count == 5
enum_max_values == 5
enum_min_count == 5

\* "Determine property type" of _analyze_property.
MainType(types) ==
    IF Cardinality(types) = 1 THEN CHOOSE t \in types : TRUE
    ELSE IF "string" \in types THEN "string"
    ELSE IF {"number", "integer"} \subseteq types THEN "number"
    ELSE CHOOSE t \in types : TRUE

\* _analyze_property, as evolve_schema keeps it: type, required, enum.
analyze_property(name, data) ==
    PropDef(IF NameContains(name, "date") /\ MainType(data.types) = "string"
            THEN "date" ELSE MainType(data.types),
            \/ data.count > required_count
            \/ NameContains(name, "id")
            \/ NameContains(name, "number"),
            IF Cardinality(data.values) <= enum_max_values /\ data.count >= enum_min_count
            THEN data.values ELSE NoEnum)

\* The records of a list that satisfy a test given as the set of indices.
AtIndices(seq, idx) ==
    Concat([k \in 1..Len(seq) |-> IF k \in idx THEN <<seq[k]>> ELSE <<>>])

NodesWithLabel(nodes, label) ==
    AtIndices(nodes, {k \in 1..Len(nodes) : label \in Range(nodes[k].labels)})

\* common_props / new_props: the analysed properties seen often enough.
CommonProps(records, mincount, excluded) ==
    [name \in {x \in PropertyNames(records) \ excluded :
                  PropertyData(records, x).count >= mincount}
        |-> analyze_property(name, PropertyData(records, name))]

\* _get_node_label: the first label of the first node with that id.
get_node_label(node_id, nodes) ==
    LET hits == {k \in 1..Len(nodes) : nodes[k].id = node_id}
    IN  IF hits = {} THEN None
        ELSE LET k == CHOOSE x \in hits : \A y \in hits : x <= y
             IN  IF nodes[k].labels = <<>> THEN None ELSE nodes[k].labels[1]

\* rel_key of an edge record: <<type, source label, target label>>, or None
\* when a label is missing.
RelKey(edge, nodes) ==
    LET source_label == get_node_label(edge.source, nodes)
        target_label == get_node_label(edge.target, nodes)
    IN  IF source_label = None \/ target_label = None THEN <<None>>
        ELSE <<edge.type, source_label, target_label>>

\* The last relationship type of a name in a list of relationship types.
LastNamed(rels, name) ==
    CHOOSE k \in 1..Len(rels) :
        /\ rels[k].name = name
        /\ \A j \in 1..Len(rels) : rels[j].name = name => j <= k

\* name -> (source, target) over a list of relationship types.
RelTypeIndex(rels) ==
    [name \in {rels[k].name : k \in 1..Len(rels)} |->
        <<rels[LastNamed(rels, name)].source, rels[LastNamed(rels, name)].target>>]

\* existing_rel_types: name -> (source, target); a later relationship type
\* of the same name replaces an earlier one in the dictionary.
ExistingRelTypes(S) == RelTypeIndex(get_relationship_types(S))

entity_confidence_divisor == 10
relationship_confidence_divisor == 5

\* count / divisor without the min(1.0, ...) cap, in tenths.
ConfidenceUncapped(count, divisor) == (10 * count) \div divisor

\* min(1.0, count / divisor), in tenths.
Confidence(count, divisor) == Min(10, (10 * count) \div divisor)

\* The edge records whose rel_key is key.
EdgesOf(edges, keys, key) == AtIndices(edges, {k \in 1..Len(edges) : keys[k] = key})

\* The rel_keys that are no relationship type of the schema yet.
NewRelKeysIn(existing_rel_types, rel_keys) ==
    Keep(rel_keys,
         {key \in Range(rel_keys) :
             \/ key[1] \notin DOMAIN existing_rel_types
             \/ existing_rel_types[key[1]] # <<key[2], key[3]>>})

NewRelKeys(S, keys) ==
    NewRelKeysIn(ExistingRelTypes(S), Keep(Dedup(keys), Range(keys) \ {<<None>>}))

\* new_props without the "prop_data['count'] >= 3" test.
NewPropsSeenOnce(S, nodes, label) ==
    CommonProps(NodesWithLabel(nodes, label), 1, DOMAIN S.nodes[label].properties)

\* new_props of an existing entity type: the frequent properties it lacks.
NewProps(S, nodes, label) ==
    CommonProps(NodesWithLabel(nodes, label), min_entity_property_count,
                DOMAIN S.nodes[label].properties)

\* The confidence score of one recommendation key.
ConfidenceOf(nodes, edges, keys, key) ==
    IF key[1] = "entity_type"
    THEN Confidence(Len(NodesWithLabel(nodes, key[2])), entity_confidence_divisor)
    ELSE IF key[1] = "relationship_type"
    THEN Confidence(Len(EdgesOf(edges, keys, <<key[2], key[3], key[4]>>)),
                    relationship_confidence_divisor)
    ELSE Confidence(PropertyData(NodesWithLabel(nodes, key[2]), key[3]).count,
                    entity_confidence_divisor)

\* The recommendations dictionary.
Recommendations(S, nodes, edges, new_labels, with_new_props, keys, new_rel_keys) ==
    [new_entity_types |->
        [k \in 1..Len(new_labels) |->
            [name |-> new_labels[k],
             frequency |-> Len(NodesWithLabel(nodes, new_labels[k])),
             proposed_properties |->
                CommonProps(NodesWithLabel(nodes, new_labels[k]),
                            min_entity_property_count, {})]],
     new_property_types |->
        [k \in 1..Len(with_new_props) |->
            [entity_type |-> with_new_props[k],
             props |-> NewProps(S, nodes, with_new_props[k])]],
     new_relationship_types |->
        [k \in 1..Len(new_rel_keys) |->
            [name |-> new_rel_keys[k][1], source |-> new_rel_keys[k][2],
             target |-> new_rel_keys[k][3],
             frequency |-> Len(EdgesOf(edges, keys, new_rel_keys[k])),
             proposed_properties |->
                CommonProps(EdgesOf(edges, keys, new_rel_keys[k]),
                            min_relationship_property_count, {})]],
     confidence_scores |->
        [key \in {<<"entity_type", l>> : l \in Range(new_labels)}
                 \cup {<<"relationship_type", rk[1], rk[2], rk[3]>> :
                          rk \in Range(new_rel_keys)}
                 \cup UNION {{<<"property", l, x>> : x \in DOMAIN NewProps(S, nodes, l)} :
                                l \in Range(with_new_props)}
         |-> ConfidenceOf(nodes, edges, keys, key)]]

\* The labels of the schema, in iteration order, with properties to add.
WithNewProps(S, nodes, old_labels) ==
    Keep(old_labels, {l \in Range(old_labels) : DOMAIN NewProps(S, nodes, l) # {}})

\* The recommendations, given the rel_key of every edge record.
RecommendationsFor(S, nodes, edges, label_order, keys) ==
    Recommendations(S, nodes, edges,
        Keep(label_order, Range(label_order) \ Range(get_entity_types(S))),
        WithNewProps(S, nodes,
                     Keep(label_order, Range(label_order) \cap Range(get_entity_types(S)))),
        keys, NewRelKeys(S, keys))

\* analyze_instance_data.  label_order is the order in which Python happens
\* to iterate the sets all_labels and existing_entity_types.
analyze_instance_data(S, instance_data, label_order) ==
    RecommendationsFor(S, instance_data.nodes, instance_data.edges, label_order,
        [k \in 1..Len(instance_data.edges) |->
            RelKey(instance_data.edges[k], instance_data.nodes)])

\* "Apply entity type changes"
RECURSIVE ApplyEntityTypes(_, _, _, _, _)
RECURSIVE EntityTypeApplied(_, _, _, _, _, _)
\* "Apply entity type changes" without the "if confidence >= threshold" test.
ApplyEntityTypesUngated(S, recs, scores, threshold, applied) ==
    IF recs = <<>> THEN [schema |-> S, applied |-> applied]
    ELSE EntityTypeApplied(add_entity_type(S, Head(recs).name,
                                           Head(recs).proposed_properties, NoConstraints),
                           recs, scores, threshold, applied,
                           GetD(scores, <<"entity_type", Head(recs).name>>, 0))

ApplyEntityTypes(S, recs, scores, threshold, applied) ==
    IF recs = <<>> THEN [schema |-> S, applied |-> applied]
    ELSE IF GetD(scores, <<"entity_type", Head(recs).name>>, 0) >= threshold
    THEN EntityTypeApplied(add_entity_type(S, Head(recs).name,
                                           Head(recs).proposed_properties, NoConstraints),
                           recs, scores, threshold, applied,
                           GetD(scores, <<"entity_type", Head(recs).name>>, 0))
    ELSE ApplyEntityTypes(S, Tail(recs), scores, threshold, applied)

\* "if success: changes_applied['new_entity_types'].append(...)"
EntityTypeApplied(r, recs, scores, threshold, applied, confidence) ==
    ApplyEntityTypes(r.schema, Tail(recs), scores, threshold,
        IF r.ret
        THEN Append(applied, [name |-> Head(recs).name,
                              properties |-> Head(recs).proposed_properties,
                              confidence |-> confidence])
        ELSE applied)

\* "Apply property changes": the properties at or over the threshold are
\* merged into the entity type, with one version record per entity type.
RECURSIVE ApplyPropertyTypes(_, _, _, _, _)
RECURSIVE PropertiesApplied(_, _, _, _, _, _)
ApplyPropertyTypes(S, recs, scores, threshold, applied) ==
    IF recs = <<>> THEN [schema |-> S, applied |-> applied]
    ELSE PropertiesApplied(S, recs, scores, threshold, applied,
             {x \in DOMAIN Head(recs).props :
                 GetD(scores, <<"property", Head(recs).entity_type, x>>, 0) >= threshold})

\* "if applied_props": the chosen properties update the node's properties.
PropertiesApplied(S, recs, scores, threshold, applied, chosen) ==
    IF chosen = {}
    THEN ApplyPropertyTypes(S, Tail(recs), scores, threshold, applied)
    ELSE ApplyPropertyTypes(
             record_schema_version(
                 [S EXCEPT !.nodes[Head(recs).entity_type].properties =
                     [x \in DOMAIN @ \cup chosen |->
                         IF x \in chosen THEN Head(recs).props[x] ELSE @[x]]],
                 <<"Added new properties to", Head(recs).entity_type, chosen>>),
             Tail(recs), scores, threshold,
             Append(applied,
                    [entity_type |-> Head(recs).entity_type,
                     props |-> [x \in chosen |->
                         [definition |-> Head(recs).props[x],
                          confidence |-> scores[<<"property", Head(recs).entity_type, x>>]]]]))

\* "Apply relationship type changes"
RECURSIVE ApplyRelationshipTypes(_, _, _, _, _)
RECURSIVE RelationshipTypeApplied(_, _, _, _, _, _)
ApplyRelationshipTypes(S, recs, scores, threshold, applied) ==
    IF recs = <<>> THEN [schema |-> S, applied |-> applied]
    ELSE IF GetD(scores, <<"relationship_type", Head(recs).name,
                           Head(recs).source, Head(recs).target>>, 0) >= threshold
    THEN RelationshipTypeApplied(
             add_relationship_type(S, Head(recs).name, Head(recs).source, Head(recs).target,
                                   Head(recs).proposed_properties, NoConstraints),
             recs, scores, threshold, applied,
             GetD(scores, <<"relationship_type", Head(recs).name,
                            Head(recs).source, Head(recs).target>>, 0))
    ELSE ApplyRelationshipTypes(S, Tail(recs), scores, threshold, applied)

\* "if success: changes_applied['new_relationship_types'].append(...)"
RelationshipTypeApplied(r, recs, scores, threshold, applied, confidence) ==
    ApplyRelationshipTypes(r.schema, Tail(recs), scores, threshold,
        IF r.ret
        THEN Append(applied, [name |-> Head(recs).name, source |-> Head(recs).source,
                              target |-> Head(recs).target,
                              properties |-> Head(recs).proposed_properties,
                              confidence |-> confidence])
        ELSE applied)

\* EvolutionReport without the closing _update_schema_metrics call.
EvolutionReportStale(a, b, c) ==
    [schema |-> c.schema,
     ret |-> [new_entity_types |-> a.applied,
              new_property_types |-> b.applied,
              new_relationship_types |-> c.applied]]

\* "Update metrics" and the changes_applied report.
EvolutionReport(a, b, c) ==
    [schema |-> update_schema_metrics(c.schema),
     ret |-> [new_entity_types |-> a.applied,
              new_property_types |-> b.applied,
              new_relationship_types |-> c.applied]]

\* The report when the entity type and property changes come last.
PropertiesLast(a, b, c) == EvolutionReport(a, b, [schema |-> b.schema, applied |-> c.applied])

AfterEntityTypesLast(recommendations, threshold, c, a) ==
    PropertiesLast(a,
        ApplyPropertyTypes(a.schema, recommendations.new_property_types,
                           recommendations.confidence_scores, threshold, <<>>),
        c)

\* After the property changes: the relationship type changes.
AfterPropertyTypes(recommendations, threshold, a, b) ==
    EvolutionReport(a, b,
        ApplyRelationshipTypes(b.schema, recommendations.new_relationship_types,
                               recommendations.confidence_scores, threshold, <<>>))

\* After the entity type changes: the property changes.
AfterEntityTypes(recommendations, threshold, a) ==
    AfterPropertyTypes(recommendations, threshold, a,
        ApplyPropertyTypes(a.schema, recommendations.new_property_types,
                           recommendations.confidence_scores, threshold, <<>>))

\* The recommendations applied with the relationship type changes first.
RelationshipsFirst(recommendations, threshold, c) ==
    AfterEntityTypesLast(recommendations, threshold, c,
        ApplyEntityTypes(c.schema, recommendations.new_entity_types,
                         recommendations.confidence_scores, threshold, <<>>))

ApplyRecommendationsRelationshipsFirst(S, recommendations, threshold) ==
    RelationshipsFirst(recommendations, threshold,
        ApplyRelationshipTypes(S, recommendations.new_relationship_types,
                               recommendations.confidence_scores, threshold, <<>>))

\* The three groups of recommendations applied in order.
ApplyRecommendations(S, recommendations, threshold) ==
    AfterEntityTypes(recommendations, threshold,
        ApplyEntityTypes(S, recommendations.new_entity_types,
                         recommendations.confidence_scores, threshold, <<>>))

evolve_schema(S, instance_data, threshold, label_order) ==
    ApplyRecommendations(S, analyze_instance_data(S, instance_data, label_order), threshold)

\* analyze_instance_data applying what it recommends, as evolve_schema with
\* threshold 0 does, before it returns the recommendations.
AnalyzeCallApplying(S, instance_data, label_order) ==
    [schema |-> evolve_schema(S, instance_data, 0, label_order).schema,
     ret |-> analyze_instance_data(S, instance_data, label_order)]

\* A call of analyze_instance_data: the schema manager as the call leaves
\* it (the method assigns no attribute and changes no graph data) and the
\* recommendations it returns.
AnalyzeCall(S, instance_data, label_order) ==
    [schema |-> S, ret |-> analyze_instance_data(S, instance_data, label_order)]


-----------------------------------------------------------------------------
(* The instance batches evolve_schema is given, and the schema calls.      *)

MaxSchemaOps == 2

CarNode(k) ==
    [id |-> <<"car", k>>, labels |-> <<"Car">>,
     properties |-> [make |-> StrV("Toyota"), year |-> IntV(2020)]]

PersonNode(k) ==
    [id |-> <<"person", k>>, labels |-> <<"Person">>,
     properties |-> [name |-> StrV("John Doe"), email |-> StrV("john@example.com")]]

PolicyNode(k) ==
    [id |-> <<"policy", k>>, labels |-> <<"Policy">>,
     properties |-> [policy_number |-> StrV("P1001"), owner_id |-> StrV("U5001")]]

OwnsEdge(k) ==
    [source |-> <<"person", k>>, target |-> <<"car", k>>, type |-> "OWNS",
     properties |-> [since |-> StrV("2020-01-01")]]

InsuresEdge(k) ==
    [source |-> <<"policy", k>>, target |-> <<"person", k>>, type |-> "INSURES",
     properties |-> EmptyDict]

DrivesEdge(k) ==
    [source |-> <<"person", k>>, target |-> <<"car", k>>, type |-> "DRIVES",
     properties |-> EmptyDict]

\* A batch with the given numbers of Car, Person and Policy nodes and of
\* OWNS (person k -> car 1), INSURES (policy k -> person 1) and DRIVES
\* (person k -> car 1) edges.
Batch(b) ==
    [nodes |-> [k \in 1..b[1] |-> CarNode(k)]
               \o [k \in 1..b[2] |-> PersonNode(k)]
               \o [k \in 1..b[3] |-> PolicyNode(k)],
     edges |-> [k \in 1..b[4] |-> [OwnsEdge(k) EXCEPT !.target = <<"car", 1>>]]
               \o [k \in 1..b[5] |-> [InsuresEdge(k) EXCEPT !.target = <<"person", 1>>]]
               \o [k \in 1..b[6] |-> [DrivesEdge(k) EXCEPT !.target = <<"car", 1>>]]]

Batches ==
    { <<1, 1, 0, 1, 0, 0>>,     \* one Person, one Car, one OWNS edge
      <<6, 0, 0, 0, 0, 0>>,     \* six Car nodes
      <<6, 3, 0, 3, 0, 0>>,     \* six Cars, three Persons owning the first Car
      <<1, 3, 0, 3, 0, 0>>,     \* one Car only, owned three times
      <<0, 0, 3, 0, 0, 0>>,     \* three Policy nodes with a property new to Policy
      <<0, 1, 3, 0, 1, 0>>,     \* an INSURES edge from Policy to Person
      <<1, 1, 0, 1, 0, 1>>,     \* one Person owning and driving one Car
      <<11, 0, 0, 0, 0, 0>>,    \* eleven Car nodes
      <<1, 6, 0, 6, 0, 0>> }    \* six Persons owning the one Car

Thresholds == {1, 5}

AllLabels(data) == UNION {Range(data.nodes[k].labels) : k \in 1..Len(data.nodes)}

\* Every order in which a set can be iterated.
Orders(S) ==
    {f \in [1..Cardinality(S) -> S] : \A x \in S : \E k \in 1..Cardinality(S) : f[k] = x}

EntityNames == {"Person", "Car", "Policy"}

EntityProperties == {EmptyDict, [name |-> PropDef("string", TRUE, NoEnum)]}

RelationshipNames == {"OWNS", "INSURES"}

RelationshipPairs ==
    { <<"Person", "Policy">>, <<"Policy", "Insured">>, <<"Policy", "Coverage">>,
      <<"Person", "Person">>,
      <<"Person", "Car">>, <<"Person", "Ghost">>, <<"Ghost", "Policy">> }

InitSchemaVars ==
    /\ schema = NewSchema
    /\ last_call = [op |-> "__init__"]
    /\ ret = None

\* The version records __init__ leaves: one per default entity type and
\* relationship type, and "Initial schema creation".
InitialVersions == Len(DefaultEntityTypes) + Len(DefaultRelationshipTypes) + 1

\* The schema calls stop once MaxSchemaOps version records were added.
SchemaRoom == Len(schema.versions) < InitialVersions + MaxSchemaOps

AddEntityType(name, properties) ==
    /\ SchemaRoom
    /\ LET r == add_entity_type(schema, name, properties, NoConstraints)
       IN  /\ schema' = r.schema
           /\ ret' = r.ret
    /\ last_call' = [op |-> "add_entity_type", name |-> name, properties |-> properties]
    /\ UNCHANGED <<queryVars, frontVars>>

AddRelationshipType(name, source_type, target_type) ==
    /\ SchemaRoom
    /\ LET r == add_relationship_type(schema, name, source_type, target_type,
                                      EmptyDict, NoConstraints)
       IN  /\ schema' = r.schema
           /\ ret' = r.ret
    /\ last_call' = [op |-> "add_relationship_type", name |-> name,
                     source |-> source_type, target |-> target_type]
    /\ UNCHANGED <<queryVars, frontVars>>

\* export_schema(output_file): ret holds what the file holds.
ExportSchema ==
    /\ last_call.op # "export_schema"
    /\ ret' = export_schema(schema)
    /\ last_call' = [op |-> "export_schema"]
    /\ UNCHANGED schema
    /\ UNCHANGED <<queryVars, frontVars>>

\* SelfEvolvingGraphSchema(base_schema_path=output_file) on the file just
\* written: ret holds the new schema manager, beside the exporting one.
Reimport ==
    /\ last_call.op = "export_schema"
    /\ ret' = NewSchemaFrom(ret)
    /\ last_call' = [op |-> "reimport"]
    /\ UNCHANGED schema
    /\ UNCHANGED <<queryVars, frontVars>>

AnalyzeInstanceData(b, label_order) ==
    /\ LET r == AnalyzeCall(schema, Batch(b), label_order)
       IN  /\ schema' = r.schema
           /\ ret' = r.ret
    /\ last_call' = [op |-> "analyze_instance_data", batch |-> b]
    /\ UNCHANGED <<queryVars, frontVars>>

EvolveSchema(b, threshold, label_order) ==
    /\ SchemaRoom
    /\ LET r == evolve_schema(schema, Batch(b), threshold, label_order)
       IN  /\ schema' = r.schema
           /\ ret' = r.ret
    /\ last_call' = [op |-> "evolve_schema", batch |-> b, threshold |-> threshold]
    /\ UNCHANGED <<queryVars, frontVars>>

-----------------------------------------------------------------------------
(* extract_parameters.  The regular expressions are given by what they     *)
(* find in the query texts of the model.  A Python dictionary holds        *)
(* references: params.update(user_context) puts the caller's coverage_types*)
(* list itself into params, so an append to params['coverage_types'] is an *)
(* append to the caller's list.                                            *)

Queries ==
    {"Tell me about policy P1001",
     "What does my auto insurance cover?",
     "Am I covered for liability damage?",
     "Does policy P1001 include collision and liability?",
     "What is the status of claim CL4001?",
     "Is my home or auto insurance active?",
     "Is the premium of $1,200 due for policy P1001 since 01/02/2023?",
     "Was the payment for claim CL4001 approved?"}

\* group(1) of the policy number pattern, None without a match.
PolicyNumberIn(q) ==
    IF q \in {"Tell me about policy P1001",
              "Does policy P1001 include collision and liability?",
              "Is the premium of $1,200 due for policy P1001 since 01/02/2023?"}
    THEN "P1001" ELSE None

\* group(1) of the claim number pattern.
ClaimNumberIn(q) ==
    IF q \in {"What is the status of claim CL4001?",
              "Was the payment for claim CL4001 approved?"}
    THEN "CL4001" ELSE None

\* group(1) of the date pattern.
DateReferenceIn(q) ==
    IF q = "Is the premium of $1,200 due for policy P1001 since 01/02/2023?"
    THEN "01/02/2023" ELSE None

\* group(1) of the amount pattern.
AmountIn(q) ==
    IF q = "Is the premium of $1,200 due for policy P1001 since 01/02/2023?"
    THEN "1,200" ELSE None

\* str.replace(',', '')
WithoutCommas(str) == IF str = "1,200" THEN "1200" ELSE str

\* The keywords w for which re.search(r'(?i)\b' + w + r'\b', q) matches.
WordsIn(q) ==
    CASE q = "What does my auto insurance cover?" -> {"auto"}
      [] q = "Am I covered for liability damage?" -> {"liability"}
      [] q = "Does policy P1001 include collision and liability?" -> {"collision", "liability"}
      [] q = "Is my home or auto insurance active?" -> {"home", "auto"}
      [] q = "Is the premium of $1,200 due for policy P1001 since 01/02/2023?" -> {"due"}
      [] q = "Was the payment for claim CL4001 approved?" -> {"payment", "approved"}
      [] OTHER -> {}

coverage_types ==
    <<"liability", "collision", "comprehensive", "uninsured motorist",
      "personal injury", "medical payments", "property damage",
      "flood", "fire", "theft", "water damage">>

policy_types == <<"auto", "home", "life", "health", "liability", "umbrella", "commercial">>

\* The keywords of a list that the query mentions, in the order of the list.
Mentioned(list, q) == Keep(list, WordsIn(q))

\* user_context = None, the default of the argument.
NoContext == [none |-> TRUE]

\* "if user_context: params.update(user_context)"
MergedContext(context) ==
    IF context = NoContext THEN EmptyDict
    ELSE IF DOMAIN context = {} THEN EmptyDict
    ELSE context

\* "if match: params[key] = ..."
WithMatch(p, key, match) == IF match = None THEN p ELSE Put(p, key, StrV(match))

\* The four generic extractors before the coverage types.
WithGenericMatches(p, q) ==
    WithMatch(
        WithMatch(
            WithMatch(
                WithMatch(p, "policy_number", PolicyNumberIn(q)),
                "claim_number", ClaimNumberIn(q)),
            "date_reference", DateReferenceIn(q)),
        "amount_reference", WithoutCommas(AmountIn(q)))

\* The coverage type loop: the first hit creates the list if the key is
\* missing, every hit is appended.
WithCoverageTypes(p, mentioned) ==
    IF mentioned = <<>> THEN p
    ELSE Put(p, "coverage_types",
             GetD(p, "coverage_types", <<>>) \o [k \in 1..Len(mentioned) |-> StrV(mentioned[k])])

\* "if cond: params[key] = True"
WithFlag(p, key, cond) == IF cond THEN Put(p, key, TRUE) ELSE p

\* The intent-specific extractors run for every intent.
WithIntentSpecificAnyIntent(p, q, i) ==
    IF Mentioned(policy_types, q) # <<>>
    THEN Put(p, "policy_type", StrV(Mentioned(policy_types, q)[1]))
    ELSE p

\* "Intent-specific parameter extraction"
WithIntentSpecific(p, q, i) ==
    CASE i = "policy_details" ->
           IF Mentioned(policy_types, q) # <<>>
           THEN Put(p, "policy_type", StrV(Mentioned(policy_types, q)[1]))
           ELSE p
      [] i = "claim_status" ->
           WithFlag(WithFlag(p, "status_inquiry",
                             WordsIn(q) \cap {"approved", "denied", "pending", "review",
                                              "progress", "decision"} # {}),
                    "payment_inquiry",
                    WordsIn(q) \cap {"payment", "payout", "reimbursement", "check"} # {})
      [] i = "premium_information" ->
           WithFlag(WithFlag(p, "due_date_inquiry",
                             WordsIn(q) \cap {"due", "next", "payment date"} # {}),
                    "premium_change_inquiry",
                    WordsIn(q) \cap {"increase", "decrease", "change", "different"} # {})
      [] OTHER -> p

\* The caller's dictionary after the call: its coverage_types list is the
\* list the coverage type loop appended to.
ContextAfter(context, mentioned) ==
    IF "coverage_types" \in DOMAIN MergedContext(context) /\ mentioned # <<>>
    THEN Put(context, "coverage_types",
             context.coverage_types \o [k \in 1..Len(mentioned) |-> StrV(mentioned[k])])
    ELSE context

\* extract_parameters(query_text, intent, user_context): the params it
\* returns and the user_context it leaves.
extract_parameters(q, i, context) ==
    [params |->
        WithIntentSpecific(
            WithCoverageTypes(WithGenericMatches(MergedContext(context), q),
                              Mentioned(coverage_types, q)),
            q, i),
     user_context |-> ContextAfter(context, Mentioned(coverage_types, q))]

\* The intents extract_parameters is called with.
ExtractIntents == {"policy_details", "coverage_inquiry", "claim_status", "premium_information"}

\* The user_context dictionaries a caller starts from.
Contexts ==
    {NoContext,
     EmptyDict,
     [policy_number |-> StrV("P2002")],
     [coverage_types |-> <<StrV("collision")>>],
     [policy_type |-> StrV("home"), coverage_types |-> <<>>]}

MaxContextList == 3

NoCall == [none |-> TRUE]

InitFrontVars ==
    /\ query_text = None
    /\ user_context = NoContext
    /\ response = NoCall

\* The caller takes a new user_context dictionary.
NewContext(context) ==
    /\ user_context' = context
    /\ query_text' = None
    /\ intent' = None
    /\ params' = EmptyDict
    /\ UNCHANGED <<kg_nodes, kg_edges, edge_loads, graph_query, built, results, raised,
                   path_counts, response, analysis, automation, auto_call>>
    /\ UNCHANGED schemaVars

\* The caller's coverage_types list has room for another call.
ContextRoom ==
    Len(GetD(MergedContext(user_context), "coverage_types", <<>>)) < MaxContextList

\* extract_parameters(q, i, user_context) with the caller's dictionary.
ExtractParameters(q, i) ==
    /\ ContextRoom
    /\ query_text' = q
    /\ intent' = i
    /\ params' = extract_parameters(q, i, user_context).params
    /\ user_context' = extract_parameters(q, i, user_context).user_context
    /\ UNCHANGED <<kg_nodes, kg_edges, edge_loads, graph_query, built, results, raised,
                   path_counts, response, analysis, automation, auto_call>>
    /\ UNCHANGED schemaVars

-----------------------------------------------------------------------------
(* GraphRAGQueryProcessor.generate_response.  A text is the sequence of its
   parts and reads as their concatenation; a template is a sequence of
   literal parts and slots.                                                *)

Lit(s) == [lit |-> s]
Slot(s) == [slot |-> s]

\* _initialize_response_templates: per intent the templates in their order;
\* 'condition' is the set of slots the template's condition asks to be in
\* the data.
response_templates ==
    [policy_details |->
        << [template |-> <<Lit("Your policy "), Slot("policy_number"), Lit(" is a "),
                           Slot("policy_type"),
                           Lit(" insurance policy with an effective date of "),
                           Slot("effective_date"), Lit(" and expiration date of "),
                           Slot("expiration_date"), Lit(". "), Slot("additional_info")>>,
            required_slots |-> <<"policy_number", "policy_type", "effective_date",
                                 "expiration_date">>,
            condition |-> {"policy_number"}],
           [template |-> <<Lit("I found your "), Slot("policy_type"),
                           Lit(" policy. It's currently "), Slot("status"),
                           Lit(" and covers you from "), Slot("effective_date"),
                           Lit(" to "), Slot("expiration_date"), Lit(".")>>,
            required_slots |-> <<"policy_type", "status", "effective_date",
                                 "expiration_date">>,
            condition |-> {"policy_type", "status"}] >>,
     claim_status |->
        << [template |-> <<Lit("Your claim "), Slot("claim_number"),
                           Lit(" is currently "), Slot("status"), Lit(". "),
                           Slot("additional_info")>>,
            required_slots |-> <<"claim_number", "status">>,
            condition |-> {"claim_number", "status"}],
           [template |-> <<Lit("The claim you filed on "), Slot("date_filed"),
                           Lit(" for "), Slot("claim_type"), Lit(" is "), Slot("status"),
                           Lit(". The assigned adjuster is "), Slot("adjuster"), Lit(".")>>,
            required_slots |-> <<"date_filed", "claim_type", "status">>,
            condition |-> {"date_filed", "status"}] >>,
     filing_claim |->
        << [template |-> <<Lit("To file a claim, you'll need to: 1) Report the incident immediately, 2) Gather all relevant information including "),
                           Slot("required_info"),
                           Lit(", 3) Contact our claims department at "),
                           Slot("contact_info"), Lit(".")>>,
            required_slots |-> <<"required_info", "contact_info">>,
            condition |-> {}] >>,
     default |->
        << [template |-> <<Lit("I don't have enough information to answer your query about "),
                           Slot("topic"), Lit(". Could you provide more details?")>>,
            required_slots |-> <<"topic">>,
            condition |-> {"topic"}],
           [template |-> <<Lit("I'm not sure I understand your question. Can you rephrase it or provide more specific details about what you're looking for?")>>,
            required_slots |-> <<>>,
            condition |-> {}] >>]

\* self.response_templates.get(intent, self.response_templates['default']).
TemplatesFor(i) ==
    IF i \in DOMAIN response_templates THEN response_templates[i]
    ELSE response_templates["default"]

\* intent.replace('_', ' ').
Topic(i) ==
    CASE i = "policy_details" -> "policy details"
      [] i = "claim_status" -> "claim status"
      [] i = "filing_claim" -> "filing claim"
      [] OTHER -> i

\* prop_values[0] for a single value, else ', '.join(str(v) for v in
\* prop_values), as a text.
RECURSIVE JoinValues(_)
JoinValues(prop_values) ==
    IF prop_values = <<>> THEN <<>>
    ELSE IF Len(prop_values) = 1 THEN <<prop_values[1].s>>
    ELSE <<prop_values[1].s, ", ">> \o JoinValues(Tail(prop_values))

\* "map to your slots": the slot a property of an alias is stored under.
SlotOf(alias, prop) ==
    IF prop \in {"policy_number", "effective_date", "expiration_date", "status"} THEN prop
    ELSE IF prop = "type" /\ alias = "" THEN "policy_type"
    ELSE IF prop = "claim_number" THEN prop
    ELSE IF prop = "date_of_loss" THEN "date_filed"
    ELSE IF prop = "amount" /\ alias = "pr" THEN "amount"
    ELSE IF prop = "amount" /\ alias = "c" THEN "claim_amount"
    ELSE IF prop = "payment_frequency" THEN "frequency"
    ELSE IF prop \in {"due_date", "limit", "deductible"} THEN prop
    ELSE IF prop = "type" /\ alias = "c" THEN "coverage_type"
    ELSE prop

\* The value stored under the slot: amounts, limits and deductibles get a
\* '$' in front.
SlotValue(alias, prop, prop_values) ==
    IF \/ prop = "amount" /\ alias \in {"pr", "c"}
       \/ prop \in {"limit", "deductible"}
    THEN <<"$">> \o JoinValues(prop_values)
    ELSE JoinValues(prop_values)

\* "1) Flatten top-level properties": the items of query_results['properties']
\* in their order; an item is <<alias, property>> with its values.
RECURSIVE FlattenProperties(_, _)
FlattenProperties(items, template_data) ==
    IF items = <<>> THEN template_data
    ELSE FlattenProperties(
             Tail(items),
             Put(template_data,
                 SlotOf(Head(items).key[1], Head(items).key[2]),
                 SlotValue(Head(items).key[1], Head(items).key[2], Head(items).values)))

\* template_data.setdefault(slot, value).
SetDefault(template_data, slot, value) ==
    IF slot \in DOMAIN template_data THEN template_data
    ELSE Put(template_data, slot, value)

\* "3) procedural default".
WithProceduralDefaults(i, template_data) ==
    IF i = "filing_claim"
    THEN SetDefault(
             SetDefault(template_data, "required_info",
                        <<"policy information, date and details of incident, photos if applicable">>),
             "contact_info", <<"1-800-555-CLAIM or claims@example-insurance.com">>)
    ELSE template_data

\* _prepare_template_data for the intents of ResponseIntents (none of them is
\* coverage_inquiry, whose own step runs for that intent only).
prepare_template_data(i, query_results, p) ==
    WithProceduralDefaults(
        i, FlattenProperties(GetD(query_results, "properties", <<>>), EmptyDict))

\* A template is usable when its required slots are in the data and its
\* condition holds.
Usable(template_spec, template_data) ==
    /\ Range(template_spec.required_slots) \subseteq DOMAIN template_data
    /\ template_spec.condition \subseteq DOMAIN template_data

\* The first usable template, by its position, or 0.
SelectTemplate(templates, template_data) ==
    IF \E k \in 1..Len(templates) : Usable(templates[k], template_data)
    THEN CHOOSE k \in 1..Len(templates) :
             /\ Usable(templates[k], template_data)
             /\ \A j \in 1..(k - 1) : ~Usable(templates[j], template_data)
    ELSE 0

\* "Replace slots in template": a slot of the data becomes its value, any
\* other placeholder stays as it is written.
FillTemplate(template, template_data) ==
    Concat([k \in 1..Len(template) |->
               IF "lit" \in DOMAIN template[k] THEN <<template[k].lit>>
               ELSE IF template[k].slot \in DOMAIN template_data
               THEN template_data[template[k].slot]
               ELSE <<"{" \o template[k].slot \o "}">>])

\* The response from a template and its data.
TemplateResponse(template_spec, template_data) ==
    [answer |-> FillTemplate(template_spec.template, template_data),
     success |-> TRUE,
     template_data |-> template_data]

\* "Select the best template", with the fall back to the first default
\* template and the topic as the only data.
SelectedResponse(i, templates, template_data) ==
    IF SelectTemplate(templates, template_data) = 0
    THEN TemplateResponse(response_templates["default"][1],
                          [topic |-> <<Topic(i)>>])
    ELSE TemplateResponse(templates[SelectTemplate(templates, template_data)],
                          template_data)

generate_procedural_response(i, procedural_data) ==
    IF i = "filing_claim"
    THEN [answer |-> <<"To file a claim, you'll need to: 1) Report the incident immediately, 2) Gather all relevant information including ">>
                     \o GetD(procedural_data, "required_info", <<"documentation">>)
                     \o <<", 3) Contact our claims department at ">>
                     \o GetD(procedural_data, "contact_info", <<"1-800-CLAIMS">>)
                     \o <<".">>,
          success |-> TRUE]
    ELSE [answer |-> <<"Here's the process for ", Topic(i), ": [Procedural information]">>,
          success |-> TRUE]

generate_no_results_response(i, p) ==
    IF i = "policy_details"
    THEN IF "policy_number" \in DOMAIN p
         THEN [answer |-> <<"I couldn't find any policy with the number ",
                            p.policy_number.s,
                            ". Please check if the policy number is correct.">>,
               success |-> FALSE]
         ELSE [answer |-> <<"I need a policy number to provide policy details. Could you please provide your policy number?">>,
               success |-> FALSE]
    ELSE IF i = "claim_status"
    THEN IF "claim_number" \in DOMAIN p
         THEN [answer |-> <<"I couldn't find any claim with the number ",
                            p.claim_number.s,
                            ". Please check if the claim number is correct.">>,
               success |-> FALSE]
         ELSE [answer |-> <<"I need a claim number to provide claim status. Could you please provide your claim number?">>,
               success |-> FALSE]
    ELSE [answer |-> <<"I couldn't find any information about your ", Topic(i),
                       " query. Could you provide more details?">>,
          success |-> FALSE]

generate_response(i, query_results, p) ==
    IF Get(query_results, "type") = "procedural"
    THEN generate_procedural_response(i, GetD(query_results, "data", EmptyDict))
    ELSE IF GetD(query_results, "count", 0) = 0
    THEN generate_no_results_response(i, p)
    ELSE SelectedResponse(i, TemplatesFor(i), prepare_template_data(i, query_results, p))

\* One item of query_results['properties'].
Item(alias, prop, prop_values) == [key |-> <<alias, prop>>, values |-> prop_values]

\* The query results generate_response is called with: the policy of
\* test_generate_response under the keys execute_graph_query gives, the same
\* under bare keys, two policies, a claim, no result, a dictionary without a
\* count, and procedural results.
ResponseResults ==
    {[properties |-> <<Item("p", "policy_number", <<StrV("P1001")>>),
                       Item("p", "effective_date", <<StrV("2023-01-01")>>),
                       Item("p", "expiration_date", <<StrV("2024-01-01")>>),
                       Item("p", "status", <<StrV("active")>>),
                       Item("p", "type", <<StrV("auto")>>)>>,
      count |-> 1],
     [properties |-> <<Item("", "policy_number", <<StrV("P1001")>>),
                       Item("", "effective_date", <<StrV("2023-01-01")>>),
                       Item("", "expiration_date", <<StrV("2024-01-01")>>),
                       Item("", "type", <<StrV("auto")>>)>>,
      count |-> 1],
     [properties |-> <<Item("p", "status", <<StrV("active"), StrV("expired")>>),
                       Item("p", "effective_date", <<StrV("2023-01-01")>>),
                       Item("p", "expiration_date", <<StrV("2024-01-01")>>),
                       Item("", "type", <<StrV("auto"), StrV("home")>>)>>,
      count |-> 2],
     [properties |-> <<Item("c", "claim_number", <<StrV("CL4001")>>),
                       Item("c", "status", <<StrV("open")>>),
                       Item("c", "amount", <<StrV("1200")>>)>>,
      count |-> 1],
     [count |-> 0],
     [properties |-> <<Item("p", "policy_number", <<StrV("P1001")>>)>>],
     [type |-> "procedural", data |-> EmptyDict],
     [type |-> "procedural", data |-> [required_info |-> <<"photos">>]]}

ResponseIntents == {"policy_details", "claim_status", "filing_claim", "unknown"}

ResponseParams ==
    {EmptyDict,
     [policy_number |-> StrV("P1001")],
     [policy_number |-> StrV("NONEXISTENT")],
     [claim_number |-> StrV("CL4001")]}

\* generate_response(i, query_results, p).
GenerateResponse(i, query_results, p) ==
    /\ intent' = i
    /\ params' = p
    /\ response' = [query_results |-> query_results,
                    ret |-> generate_response(i, query_results, p)]
    /\ UNCHANGED <<kg_nodes, kg_edges, edge_loads, graph_query, built, results, raised,
                   path_counts, query_text, user_context, analysis, automation, auto_call>>
    /\ UNCHANGED schemaVars

-----------------------------------------------------------------------------
(* GraphRAGQueryProcessor.analyze_intent.  Confidences and similarities are
   kept in tenths.                                                         *)

\* The intents of _initialize_intent_patterns in the order of the dictionary.
intent_patterns ==
    <<"policy_details", "coverage_inquiry", "claim_status", "premium_information",
      "filing_claim", "definition_inquiry">>

\* Every intent comes with four patterns.
PatternsPerIntent == 4

\* The query texts analyze_intent is called with: those of
\* test_analyze_intent, the scenario query of the specification, and texts
\* that match several patterns of one intent or patterns of several intents.
IntentQueries ==
    {"What are the details of my policy P1001?",
     "What does my policy cover?",
     "What's the status of my claim CL4001?",
     "What's the weather like today?",
     "What is the status of claim CL4001?",
     "Tell me about my policy details",
     "Give me policy details and information about my policy, tell me about my policy",
     "What is on my policy details? Tell me about my policy and information about my policy",
     "What is the status of my claim and my premium?",
     "Is the claim status covered under my policy? Give me coverage details",
     "How do I file a claim? I need the claim filing process and policy details, payment details, the premium"}

\* re.match(pattern, query_text): the <<intent, position>> of every pattern
\* that matches the text.
MatchedPatterns(q) ==
    CASE q = "What are the details of my policy P1001?"
         -> {}
      [] q = "What does my policy cover?"
         -> {<<"coverage_inquiry", 1>>}
      [] q = "What's the status of my claim CL4001?"
         -> {<<"claim_status", 1>>}
      [] q = "What's the weather like today?"
         -> {}
      [] q = "What is the status of claim CL4001?"
         -> {}
      [] q = "Tell me about my policy details"
         -> {<<"policy_details", 1>>, <<"policy_details", 4>>}
      [] q = "Give me policy details and information about my policy, tell me about my policy"
         -> {<<"policy_details", 1>>, <<"policy_details", 2>>, <<"policy_details", 4>>}
      [] q = "What is on my policy details? Tell me about my policy and information about my policy"
         -> {<<"policy_details", 1>>, <<"policy_details", 2>>, <<"policy_details", 3>>, <<"policy_details", 4>>}
      [] q = "What is the status of my claim and my premium?"
         -> {<<"claim_status", 1>>, <<"premium_information", 1>>}
      [] q = "Is the claim status covered under my policy? Give me coverage details"
         -> {<<"coverage_inquiry", 2>>, <<"coverage_inquiry", 4>>, <<"claim_status", 2>>}
      [] q = "How do I file a claim? I need the claim filing process and policy details, payment details, the premium"
         -> {<<"policy_details", 1>>, <<"premium_information", 1>>, <<"premium_information", 3>>, <<"filing_claim", 1>>, <<"filing_claim", 3>>}
      [] OTHER -> {}

\* pattern_matches[intent] after the loop over the patterns of the intent.
PatternScore(i, q) ==
    Cardinality({k \in 1..PatternsPerIntent : <<i, k>> \in MatchedPatterns(q)})

\* The keys of pattern_matches in the order they were inserted.
PatternMatches(q) ==
    SelectSeq(intent_patterns, LAMBDA i : PatternScore(i, q) > 0)

\* The last of the items with the highest score.
LastMax(items, score) ==
    items[CHOOSE k \in 1..Len(items) :
              /\ \A j \in 1..Len(items) : score[items[j]] <= score[items[k]]
              /\ \A j \in (k + 1)..Len(items) : score[items[j]] < score[items[k]]]

\* max(items, key = score): the first of the items with the highest score.
FirstMax(items, score) ==
    items[CHOOSE k \in 1..Len(items) :
              /\ \A j \in 1..Len(items) : score[items[j]] <= score[items[k]]
              /\ \A j \in 1..(k - 1) : score[items[j]] < score[items[k]]]

\* best_intent of the pattern step.
BestPatternIntent(q) ==
    FirstMax(PatternMatches(q), [i \in Range(intent_patterns) |-> PatternScore(i, q)])

\* min(0.9, 0.7 + 0.1 * score), in tenths.
PatternConfidence(score) == Min(9, 7 + score)

\* The intents of _initialize_intent_examples, which have an embedding.
intent_embeddings ==
    <<"policy_details", "coverage_inquiry", "claim_status", "premium_information",
      "filing_claim">>

\* The cosine similarities the embedding model gives, in tenths: one below
\* and one above the 0.6 that the embedding step asks for.
Similarities == {5, 7}

\* "Semantic similarity-based intent detection" with the similarity of the
\* query to every intent embedding.
EmbeddingStep(similarities) ==
    IF similarities[FirstMax(intent_embeddings, similarities)] < 6
    THEN [intent |-> "unknown",
          confidence |-> 10 - similarities[FirstMax(intent_embeddings, similarities)],
          method |-> "default"]
    ELSE [intent |-> FirstMax(intent_embeddings, similarities),
          confidence |-> similarities[FirstMax(intent_embeddings, similarities)],
          method |-> "embedding"]

\* analyze_intent(query_text): what it returns, and whether it asked for the
\* embedding of the query.
analyze_intent(q, similarities) ==
    IF PatternMatches(q) # <<>>
    THEN [ret |-> [intent |-> BestPatternIntent(q),
                   confidence |-> PatternConfidence(PatternScore(BestPatternIntent(q), q)),
                   method |-> "pattern"],
          embedded |-> FALSE]
    ELSE [ret |-> EmbeddingStep(similarities), embedded |-> TRUE]

InitAnalysis == analysis = NoCall

\* analyze_intent(q) while the embedding model gives these similarities.
AnalyzeIntent(q, similarities) ==
    /\ analysis' = [query_text |-> q,
                    similarities |-> similarities,
                    ret |-> analyze_intent(q, similarities).ret,
                    embedded |-> analyze_intent(q, similarities).embedded]
    /\ UNCHANGED <<queryVars, schemaVars>>
    /\ UNCHANGED <<query_text, user_context, response, automation, auto_call>>

-----------------------------------------------------------------------------
(* AutomationManager.  Confidences and thresholds are kept in hundredths.
   The averages among the metrics (avg_confidence, autonomous_success_rate)
   are quotients of the counters and the history and are not carried.      *)

\* _initialize_confidence_thresholds.
initialize_confidence_thresholds ==
    [policy_details |-> 80, coverage_inquiry |-> 75, claim_status |-> 90,
     premium_information |-> 85, filing_claim |-> 70, default |-> 80]

\* self.confidence_thresholds.get(intent, self.confidence_thresholds['default']).
ThresholdFor(confidence_thresholds, i) ==
    IF i \in DOMAIN confidence_thresholds THEN confidence_thresholds[i]
    ELSE confidence_thresholds["default"]

\* The terms the manager looks for that text.lower() contains, for the
\* queries and the answers of the model.
Phrases(text) ==
    CASE text = "What are the details of my policy?"
         -> {"policy", "details"}
      [] text = "What does policy P1001 cover?"
         -> {"policy", "cover"}
      [] text = "Can I sue over my denied claim?"
         -> {"claim", "denied", "sue"}
      [] text = "Your policy P1001 is an auto insurance policy..."
         -> {"policy"}
      [] text = "Which policy are you asking about? Please be more specific."
         -> {"policy", "which policy", "which", "more specific"}
      [] text = "I don't understand your question."
         -> {"don't understand"}
      [] text = "I cannot provide details of the claim."
         -> {"claim", "details", "cannot provide"}
      [] text = "Your claim is certainly covered."
         -> {"claim", "cover", "certainly"}
      [] OTHER -> {}

\* term in text.lower().
Says(text, term) == term \in Phrases(text)

\* Some term of the list is in text.lower().
SaysAny(text, terms) == \E k \in 1..Len(terms) : Says(text, terms[k])

sensitive_intents == {"policy_cancellation", "claim_dispute", "coverage_denial"}

sensitive_terms ==
    <<"sue", "lawsuit", "legal", "attorney", "lawyer", "compensation", "dispute", "complaint">>

privacy_terms == <<"ssn", "social security", "credit card", "password", "bank account">>

guarantee_terms == <<"guarantee", "promise", "always", "never", "certainly">>

\* _check_compliance: the issues found, in their order.
check_compliance(query, response_text) ==
    (IF SaysAny(response_text, privacy_terms)
     THEN <<"Potential privacy violation">> ELSE <<>>)
    \o (IF /\ Says(response_text, "denied")
           /\ Says(query, "claim")
           /\ ~Says(response_text, "reason")
        THEN <<"Missing claim denial reason">> ELSE <<>>)
    \o (IF SaysAny(response_text, guarantee_terms)
        THEN <<"Contains unsupported guarantees">> ELSE <<>>)

\* A review reason: its text and the values formatted into it.
Reason(text, confidence, threshold, issues) ==
    [text |-> text, confidence |-> confidence, threshold |-> threshold, issues |-> issues]

\* _check_if_needs_review: (needs_review, reason).
check_if_needs_review(confidence_thresholds, query, resp) ==
    IF ~resp.success
    THEN <<TRUE, Reason("Processing failed", 0, 0, <<>>)>>
    ELSE IF resp.confidence < ThresholdFor(confidence_thresholds, resp.intent)
    THEN <<TRUE, Reason("Confidence below threshold", resp.confidence,
                        ThresholdFor(confidence_thresholds, resp.intent), <<>>)>>
    ELSE IF resp.intent \in sensitive_intents
    THEN <<TRUE, Reason("Sensitive intent", 0, 0, <<resp.intent>>)>>
    ELSE IF SaysAny(query, sensitive_terms)
    THEN <<TRUE, Reason("Contains sensitive terms", 0, 0, <<>>)>>
    ELSE IF check_compliance(query, resp.answer) # <<>>
    THEN <<TRUE, Reason("Compliance issue", 0, 0, check_compliance(query, resp.answer))>>
    ELSE <<FALSE, Reason("", 0, 0, <<>>)>>

\* The exception handlers in the order of _initialize_exception_handlers.
exception_handlers ==
    <<"missing_policy_number", "missing_claim_number", "ambiguous_coverage_question",
      "unknown_intent", "compliance_issue">>

\* exc_handler['pattern'](query, resp.get('answer', '')).
HandlerPattern(exc_type, query, answer) ==
    CASE exc_type = "missing_policy_number"
         -> Says(query, "policy") /\ ~Says(query, "number") /\ Says(answer, "which policy")
      [] exc_type = "missing_claim_number"
         -> Says(query, "claim") /\ ~Says(query, "number") /\ Says(answer, "which claim")
      [] exc_type = "ambiguous_coverage_question"
         -> Says(query, "cover") /\ Says(answer, "which") /\ Says(answer, "more specific")
      [] exc_type = "unknown_intent"
         -> Says(answer, "don't understand") \/ Says(answer, "not sure what you're asking")
      [] exc_type = "compliance_issue"
         -> Says(answer, "cannot provide") \/ Says(answer, "not allowed to")

\* What a handler comes back with: None, a resp, or the exception that
\* a process_query call of the handler raised.
HandledNone == [kind |-> "none"]
HandledRaise == [kind |-> "raise"]
Handled(resp) == [kind |-> "resp", response |-> resp]

\* What query_processor.process_query does when a handler calls it:
\* 'again' says whether it raises and, if not, what it returns.
Reprocess(again) == IF again.raises THEN HandledRaise ELSE Handled(again.response)

\* user_context[key] is a list with exactly one entry, with more, or not there.
KnownCount(context, key) ==
    IF context = NoContext \/ key \notin DOMAIN context THEN 0 ELSE Len(context[key])

\* _handle_missing_policy_number and _handle_missing_claim_number.
handle_missing_number(key, context, again) ==
    IF KnownCount(context, key) = 1 THEN Reprocess(again) ELSE HandledNone

\* re.search(policy_pattern, query) of _handle_ambiguous_coverage: the policy
\* number found, or None.
PolicyMatch(query) ==
    IF query = "What does policy P1001 cover?" THEN "P1001" ELSE None

\* _handle_ambiguous_coverage.
handle_ambiguous_coverage(query, resp) ==
    IF PolicyMatch(query) # None
    THEN Handled([resp EXCEPT
             !.answer = "Your policy P1001 typically includes standard coverages such as liability, collision, and comprehensive. Each coverage has its own limit and deductible. Would you like to know about a specific type of coverage?",
             !.success = TRUE,
             !.confidence = 85])
    ELSE HandledNone

\* insurance_terms of _handle_unknown_intent, in the order of the dictionary.
insurance_terms ==
    << <<"policy", "policy_details">>, <<"coverage", "coverage_inquiry">>,
       <<"cover", "coverage_inquiry">>, <<"claim", "claim_status">>,
       <<"premium", "premium_information">>, <<"payment", "premium_information">>,
       <<"file", "filing_claim">>, <<"report", "filing_claim">> >>

\* matched_intent: the intent of the first insurance term in the query.
MatchedIntent(query) ==
    IF \E k \in 1..Len(insurance_terms) : Says(query, insurance_terms[k][1])
    THEN insurance_terms[CHOOSE k \in 1..Len(insurance_terms) :
                            /\ Says(query, insurance_terms[k][1])
                            /\ \A j \in 1..(k - 1) : ~Says(query, insurance_terms[j][1])][2]
    ELSE None

\* The generic answer of _handle_unknown_intent for the matched intent.
GenericAnswer(matched_intent) ==
    CASE matched_intent = "policy_details"
         -> "I understand you're asking about your policy details. Could you please specify which policy you're inquiring about?"
      [] matched_intent = "coverage_inquiry"
         -> "I understand you're asking about coverage. Could you please specify which type of coverage or which policy you're inquiring about?"
      [] matched_intent = "claim_status"
         -> "I understand you're asking about a claim. Could you please provide the claim number or more details about your claim?"
      [] matched_intent = "premium_information"
         -> "I understand you're asking about your premium or payment. Could you please specify which policy this is regarding?"
      [] matched_intent = "filing_claim"
         -> "I understand you want to file a claim. To assist you with this process, I'll need some information about the incident and your policy."

\* _handle_unknown_intent.
handle_unknown_intent(query, again) ==
    IF MatchedIntent(query) = None THEN HandledNone
    ELSE IF again.raises THEN HandledRaise
    ELSE IF again.response.confidence < 60
    THEN Handled([again.response EXCEPT
             !.intent = MatchedIntent(query),
             !.answer = GenericAnswer(MatchedIntent(query)),
             !.success = TRUE,
             !.confidence = 70])
    ELSE HandledNone

\* _handle_compliance_issue.
handle_compliance_issue(query, resp) ==
    IF Says(query, "claim") /\ Says(query, "denied")
    THEN Handled([resp EXCEPT
             !.answer = "I understand you're asking about a denied claim. Claims may be denied for various reasons including policy exclusions, coverage limitations, or incomplete documentation. For specific details about your claim denial, please refer to your denial letter which includes the specific reason and your appeal rights.",
             !.success = TRUE])
    ELSE IF SaysAny(query, <<"personal", "information", "details">>)
    THEN Handled([resp EXCEPT
             !.answer = "For security and privacy reasons, I can only provide limited personal information through this channel. I can confirm basic policy information, but for detailed personal data, please log in to your secure account portal or contact our customer service.",
             !.success = TRUE])
    ELSE HandledNone

\* exc_handler['handler'](query, resp, user_context).
Handler(exc_type, query, resp, context, again) ==
    CASE exc_type = "missing_policy_number"
         -> handle_missing_number("known_policies", context, again)
      [] exc_type = "missing_claim_number"
         -> handle_missing_number("known_claims", context, again)
      [] exc_type = "ambiguous_coverage_question"
         -> handle_ambiguous_coverage(query, resp)
      [] exc_type = "unknown_intent"
         -> handle_unknown_intent(query, again)
      [] exc_type = "compliance_issue"
         -> handle_compliance_issue(query, resp)

\* "Step 3: Handle exceptions if needed": the handlers from position k on.
\* exception_type is the type of the pattern that matched last.
RECURSIVE HandleExceptions(_, _, _, _, _, _)
HandleExceptions(k, query, resp, context, again, exception_type) ==
    IF k > Len(exception_handlers)
    THEN [kind |-> "none", exception_type |-> exception_type, response |-> resp]
    ELSE IF ~HandlerPattern(exception_handlers[k], query, resp.answer)
    THEN HandleExceptions(k + 1, query, resp, context, again, exception_type)
    ELSE IF Handler(exception_handlers[k], query, resp, context, again).kind = "none"
    THEN HandleExceptions(k + 1, query, resp, context, again, exception_handlers[k])
    ELSE IF Handler(exception_handlers[k], query, resp, context, again).kind = "raise"
    THEN [kind |-> "raise", exception_type |-> exception_handlers[k], response |-> resp]
    ELSE [kind |-> "resp", exception_type |-> exception_handlers[k],
          response |-> Handler(exception_handlers[k], query, resp, context, again).response]

\* The dictionary with more entries.
With(d, more) == [x \in DOMAIN d \cup DOMAIN more |-> IF x \in DOMAIN more THEN more[x] ELSE d[x]]

\* The resp of the outer except clause.
ErrorResponse ==
    [answer |-> "I'm sorry, I couldn't understand your query. Could you please rephrase it or ask about insurance-specific topics?",
     success |-> FALSE, intent |-> "unknown", confidence |-> 0,
     error |-> "Error processing query"]

\* "Record escalation".
Escalated(a, query, resp, reason, exception_type, context) ==
    [manager |->
        [a EXCEPT
            !.escalation_history =
                Append(@, [query |-> query,
                           response |-> With(resp, [requires_human_review |-> TRUE,
                                                        review_reason |-> reason]),
                           reason |-> reason,
                           exception_type |-> exception_type,
                           user_context |-> context]),
            !.metrics.escalations = @ + 1,
            !.metrics.exception_counts =
                IF exception_type = None THEN @
                ELSE [@ EXCEPT ![exception_type] = @ + 1]],
     ret |-> With(resp, [requires_human_review |-> TRUE, review_reason |-> reason])]

\* "Record autonomous decision".
Decided(a, query, resp, exception_handled, exception_type, context) ==
    [manager |->
        [a EXCEPT
            !.decision_history =
                Append(@, [query |-> query,
                           response |-> With(resp, [autonomous |-> TRUE,
                                                        exception_handled |-> exception_handled]),
                           confidence |-> resp.confidence,
                           exception_handled |-> exception_handled,
                           exception_type |-> exception_type,
                           user_context |-> context]),
            !.metrics.autonomous_decisions = @ + 1],
     ret |-> With(resp, [autonomous |-> TRUE, exception_handled |-> exception_handled])]

\* "Update metrics": total_decisions += 1.
Counted(a) == [a EXCEPT !.metrics.total_decisions = @ + 1]

\* Steps 3 and 4 for a resp that needs human review.
ReviewStep(a, query, context, reason, handled) ==
    IF handled.kind = "raise" THEN [manager |-> a, ret |-> ErrorResponse]
    ELSE IF handled.kind = "resp"
    THEN Decided(a, query, handled.response, TRUE, handled.exception_type, context)
    ELSE Escalated(a, query, handled.response, reason, handled.exception_type, context)

\* Steps 2 to 4 with the resp of the query processor.
AfterProcessing(a, query, context, resp, again, review) ==
    IF review[1]
    THEN ReviewStep(a, query, context, review[2],
                    HandleExceptions(1, query, resp, context, again, None))
    ELSE Decided(a, query, resp, FALSE, None, context)

\* process_query_with_automation(query, user_context): the manager after the
\* call and the resp returned.  'first' is what process_query does when
\* the manager calls it, 'again' what it does when a handler calls it.
process_query_with_automation(a, query, context, first, again) ==
    IF first.raises THEN [manager |-> a, ret |-> ErrorResponse]
    ELSE AfterProcessing(Counted(a), query, context, first.response, again,
                         check_if_needs_review(a.confidence_thresholds, query, first.response))

\* What process_query does: it raises, or returns a new resp dictionary.
Raises == [raises |-> TRUE, response |-> ErrorResponse]
Returns(i, confidence, success, answer) ==
    [raises |-> FALSE,
     response |-> [answer |-> answer, success |-> success, confidence |-> confidence,
                   intent |-> i]]

\* The queries of the model.
AutomationQueries ==
    {"What are the details of my policy?",
     "What does policy P1001 cover?",
     "Can I sue over my denied claim?"}

\* The user_context dictionaries of the model.
AutomationContexts == {NoContext, [known_policies |-> <<"P1001">>]}

\* What process_query does when the manager calls it: the two responses of
\* test_process_query_with_automation, answers that the exception patterns
\* look for, and a fault.
FirstResults ==
    {Returns("policy_details", 95, TRUE, "Your policy P1001 is an auto insurance policy..."),
     Returns("policy_details", 60, TRUE, "Your policy P1001 is an auto insurance policy..."),
     Returns("policy_details", 60, TRUE,
             "Which policy are you asking about? Please be more specific."),
     Returns("unknown", 50, FALSE, "I don't understand your question."),
     Returns("claim_status", 60, TRUE, "I cannot provide details of the claim."),
     Returns("claim_status", 95, TRUE, "Your claim is certainly covered."),
     Raises}

\* What process_query does when a handler calls it.
AgainResults ==
    {Returns("policy_details", 95, TRUE, "Your policy P1001 is an auto insurance policy..."),
     Returns("unknown", 50, FALSE, "I don't understand your question."),
     Raises}

MaxDecisions == 2

\* AutomationManager.__init__.
NewAutomationManager ==
    [confidence_thresholds |-> initialize_confidence_thresholds,
     decision_history |-> <<>>,
     escalation_history |-> <<>>,
     evolution_history |-> <<>>,
     metrics |-> [total_decisions |-> 0, autonomous_decisions |-> 0, escalations |-> 0,
                  exception_counts |-> [t \in Range(exception_handlers) |-> 0]]]

InitAutomation ==
    /\ automation = NewAutomationManager
    /\ auto_call = NoCall

\* A decision with feedback, as test_adjust_confidence_thresholds puts it
\* into decision_history.
FeedbackDecision(i, confidence, was_correct) ==
    [response |-> [intent |-> i, confidence |-> confidence],
     feedback |-> [was_correct |-> was_correct]]

\* n decisions with feedback for one intent.
FeedbackDecisions(i, confidence, was_correct, n) ==
    [k \in 1..n |-> FeedbackDecision(i, confidence, was_correct)]

\* The feedback batches of the model, as <<intent, correct, incorrect>>: the
\* two of test_adjust_confidence_thresholds (five correct policy_details
\* decisions, three incorrect coverage_inquiry decisions) and batches with
\* an accuracy of 1.0, 0.8, 0.6 and 0.0 over five decisions.
FeedbackBatches ==
    {<<"policy_details", 5, 0>>, <<"coverage_inquiry", 0, 3>>,
     <<"filing_claim", 5, 0>>, <<"policy_details", 4, 1>>,
     <<"coverage_inquiry", 3, 2>>, <<"claim_status", 0, 5>>,
     <<"unknown", 0, 5>>}

MaxFeedback == 8

MaxAdjustments == 3

\* intent_performance[intent]['total'] and ['correct'] over the decisions
\* that carry feedback.
PerformanceTotal(decision_history, i) ==
    Cardinality({k \in 1..Len(decision_history) :
                    /\ "feedback" \in DOMAIN decision_history[k]
                    /\ decision_history[k].response.intent = i})

PerformanceCorrect(decision_history, i) ==
    Cardinality({k \in 1..Len(decision_history) :
                    /\ "feedback" \in DOMAIN decision_history[k]
                    /\ decision_history[k].response.intent = i
                    /\ decision_history[k].feedback.was_correct})

\* The keys of intent_performance.
PerformanceIntents(decision_history) ==
    {decision_history[k].response.intent :
        k \in {j \in 1..Len(decision_history) : "feedback" \in DOMAIN decision_history[j]}}

\* "Not enough data to adjust threshold".
min_feedback_decisions == 5

\* new_threshold for an intent from its current threshold and its accuracy
\* correct / total, compared with 0.9 and 0.7.
NewThreshold(current_threshold, correct, total) ==
    IF 10 * correct > 9 * total
    THEN (IF current_threshold - 5 > 60 THEN current_threshold - 5 ELSE 60)
    ELSE IF 10 * correct < 7 * total
    THEN (IF current_threshold + 10 < 95 THEN current_threshold + 10 ELSE 95)
    ELSE current_threshold

\* The new threshold of an intent of intent_performance; intents with too
\* few feedback decisions are passed over.
AdjustedThreshold(a, i) ==
    IF PerformanceTotal(a.decision_history, i) < min_feedback_decisions
    THEN ThresholdFor(a.confidence_thresholds, i)
    ELSE NewThreshold(ThresholdFor(a.confidence_thresholds, i),
                      PerformanceCorrect(a.decision_history, i),
                      PerformanceTotal(a.decision_history, i))

\* The intents whose threshold the call changes.
AdjustedIntents(a) ==
    {i \in PerformanceIntents(a.decision_history) :
        AdjustedThreshold(a, i) # ThresholdFor(a.confidence_thresholds, i)}

\* self.confidence_thresholds after the loop.
AdjustedThresholds(a) ==
    [i \in DOMAIN a.confidence_thresholds \cup AdjustedIntents(a) |->
        IF i \in AdjustedIntents(a) THEN AdjustedThreshold(a, i)
        ELSE a.confidence_thresholds[i]]

\* adjustment_results.
AdjustmentResults(a) ==
    [previous_thresholds |-> a.confidence_thresholds,
     new_thresholds |-> AdjustedThresholds(a),
     adjustments |->
        [i \in AdjustedIntents(a) |->
            [previous |-> ThresholdFor(a.confidence_thresholds, i),
             new |-> AdjustedThreshold(a, i),
             change |-> AdjustedThreshold(a, i) - ThresholdFor(a.confidence_thresholds, i),
             correct |-> PerformanceCorrect(a.decision_history, i),
             decisions |-> PerformanceTotal(a.decision_history, i)]]]

\* adjust_confidence_thresholds(): the manager after the call and the
\* dictionary returned.
adjust_confidence_thresholds(a) ==
    [manager |->
        [a EXCEPT
            !.confidence_thresholds = AdjustedThresholds(a),
            !.evolution_history =
                Append(@, [type |-> "threshold_adjustment", details |-> AdjustmentResults(a)])],
     ret |-> AdjustmentResults(a)]

\* decision_history.extend(...) with decisions that carry feedback.
ExtendDecisionHistory(b) ==
    /\ Len(automation.decision_history) + b[2] + b[3] <= MaxFeedback
    /\ automation' =
           [automation EXCEPT
               !.decision_history =
                   @ \o FeedbackDecisions(b[1], 80, TRUE, b[2])
                     \o FeedbackDecisions(b[1], 75, FALSE, b[3])]
    /\ auto_call' = [op |-> "extend", batch |-> b]
    /\ UNCHANGED <<queryVars, schemaVars>>
    /\ UNCHANGED <<query_text, user_context, response, analysis>>

\* adjust_confidence_thresholds().
AdjustConfidenceThresholds ==
    /\ Len(automation.evolution_history) < MaxAdjustments
    /\ automation' = adjust_confidence_thresholds(automation).manager
    /\ auto_call' = [op |-> "adjust_confidence_thresholds",
                     ret |-> adjust_confidence_thresholds(automation).ret]
    /\ UNCHANGED <<queryVars, schemaVars>>
    /\ UNCHANGED <<query_text, user_context, response, analysis>>

\* process_query_with_automation(query, context).
ProcessQueryWithAutomation(query, context, first, again) ==
    /\ automation.metrics.total_decisions < MaxDecisions
    /\ automation' = process_query_with_automation(automation, query, context, first, again).manager
    /\ auto_call' = [op |-> "process_query_with_automation",
                     query |-> query,
                     ret |-> process_query_with_automation(automation, query, context, first, again).ret]
    /\ UNCHANGED <<queryVars, schemaVars>>
    /\ UNCHANGED <<query_text, user_context, response, analysis>>

-----------------------------------------------------------------------------
(* Specifications.                                                         *)

Init ==
    /\ InitQueryVars /\ InitSchemaVars /\ InitFrontVars
    /\ InitAnalysis /\ InitAutomation

\* The knowledge graph and the queries run on it.
Next ==
    \/ \E id \in NodeIds : LoadNode(id)
    \/ \E e \in EdgeRecords : LoadEdge(e)
    \/ \E r \in ExecRequests : BuildGraphQuery(r[1], r[2])
    \/ \E q \in DirectQueries : SubmitQuery(q)
    \/ ExecuteGraphQuery

Spec == Init /\ [][Next]_vars

\* The query builders over every intent and every combination of parameters.
BuildNext ==
    \/ \E i \in Intents, c \in BuildChoices : BuildGraphQuery(i, c)
    \/ \E i \in Intents, c \in BuildChoices : EnhancedBuildGraphQuery(i, c)

BuildSpec == Init /\ [][BuildNext]_vars

\* The schema manager.
SchemaNext ==
    \/ \E name \in EntityNames, properties \in EntityProperties :
           AddEntityType(name, properties)
    \/ \E name \in RelationshipNames, pr \in RelationshipPairs :
           AddRelationshipType(name, pr[1], pr[2])
    \/ \E b \in Batches :
           \E label_order \in Orders(AllLabels(Batch(b))) :
               AnalyzeInstanceData(b, label_order)
    \/ ExportSchema
    \/ Reimport
    \/ \E b \in Batches, threshold \in Thresholds :
           \E label_order \in Orders(AllLabels(Batch(b))) :
               EvolveSchema(b, threshold, label_order)

SchemaSpec == Init /\ [][SchemaNext]_vars

\* Parameter extraction and response generation.
FrontNext ==
    \/ \E context \in Contexts : NewContext(context)
    \/ \E q \in Queries, i \in ExtractIntents : ExtractParameters(q, i)

FrontSpec == Init /\ [][FrontNext]_vars

\* Response generation.
ResponseNext ==
    \E i \in ResponseIntents, query_results \in ResponseResults, p \in ResponseParams :
        GenerateResponse(i, query_results, p)

ResponseSpec == Init /\ [][ResponseNext]_vars

\* Intent analysis.
IntentNext ==
    \E q \in IntentQueries, similarities \in [Range(intent_embeddings) -> Similarities] :
        AnalyzeIntent(q, similarities)

IntentSpec == Init /\ [][IntentNext]_vars

\* The automation manager processing queries.
AutomationNext ==
    \E query \in AutomationQueries, context \in AutomationContexts,
       first \in FirstResults, again \in AgainResults :
        ProcessQueryWithAutomation(query, context, first, again)

AutomationSpec == Init /\ [][AutomationNext]_vars

\* Threshold adjustment from decisions with feedback.
ThresholdNext ==
    \/ \E b \in FeedbackBatches : ExtendDecisionHistory(b)
    \/ AdjustConfidenceThresholds

ThresholdSpec == Init /\ [][ThresholdNext]_vars

\* A base schema file with two entity types and no relationship type.
SmallSchemaFile ==
    [entity_types |->
        << [name |-> "Person",
            properties |-> [name |-> PropDef("string", TRUE, NoEnum)],
            constraints |-> NoConstraints],
           [name |-> "Car", properties |-> EmptyDict, constraints |-> NoConstraints] >>,
     relationship_types |-> <<>>]

\* The ordered pairs of the entity types of SmallSchemaFile.
SmallSchemaPairs ==
    { <<"Person", "Person">>, <<"Person", "Car">>, <<"Car", "Person">>, <<"Car", "Car">> }

\* SelfEvolvingGraphSchema(base_schema_path) on SmallSchemaFile.
SmallSchemaInit ==
    /\ InitQueryVars /\ InitFrontVars /\ InitAnalysis /\ InitAutomation
    /\ schema = NewSchemaFrom(SmallSchemaFile)
    /\ last_call = [op |-> "__init__"]
    /\ ret = None

\* The schema manager started from the small base schema.
SmallSchemaNext ==
    \/ \E properties \in EntityProperties : AddEntityType("Policy", properties)
    \/ \E pr \in SmallSchemaPairs : AddRelationshipType("OWNS", pr[1], pr[2])
    \/ \E label_order \in Orders(AllLabels(Batch(<<1, 1, 0, 1, 0, 0>>))) :
           EvolveSchema(<<1, 1, 0, 1, 0, 0>>, 1, label_order)

SmallSchemaSpec == SmallSchemaInit /\ [][SmallSchemaNext]_vars

-----------------------------------------------------------------------------
(* Properties of execute_graph_query, checked under Spec.                  *)

Executed == results # NoResult
Procedural == GetD(graph_query, "is_procedural", FALSE)
Failed == "error" \in DOMAIN results

\* The alias -> node id bindings of the final paths of the last result.
FinalBindings ==
    IF "paths" \in DOMAIN results
    THEN {results.paths[k].nodes : k \in 1..Len(results.paths)}
    ELSE {}

\* One condition of a compound filter holds of a node's properties.
ConditionHolds(props, c) ==
    /\ c.property \in DOMAIN props
    /\ PathCompare(c.operator, props[c.property], c.value) = "pass"

\* The aliases path steps bind.
ToAliases == {QList(graph_query, "paths")[k]["to"]["alias"] :
                 k \in 1..Len(QList(graph_query, "paths"))}

\* C1: an OR compound filter whose conditions target a step's to-alias is
\* honored on path extension: in every final binding, the node bound to that
\* alias satisfies at least one of the conditions.  (The code skips every
\* filter without a 'node' key, so this is violated.)
C1_OrFilterHonored ==
    \A b \in FinalBindings :
        \A i \in 1..Len(QList(graph_query, "filters")) :
            LET f == QList(graph_query, "filters")[i] IN
            ("conditions" \in DOMAIN f /\ Get(f, "operator") = "OR") =>
                \A a \in {f.conditions[k].node : k \in 1..Len(f.conditions)} \cap ToAliases :
                    a \in DOMAIN b =>
                        \E k \in 1..Len(f.conditions) :
                            /\ f.conditions[k].node = a
                            /\ ConditionHolds(kg_nodes[b[a]].properties, f.conditions[k])

\* The number of neighbours a step follows from one node.
FanOut(id, step) ==
    LET out == Cardinality({e \in kg_edges : e[1] = id /\ e[3] = step.relationship.type})
        in  == Cardinality({e \in kg_edges : e[2] = id /\ e[3] = step.relationship.type})
    IN  IF step.relationship.direction = "outgoing" THEN out
        ELSE IF step.relationship.direction = "incoming" THEN in
        ELSE out + in

\* The largest FanOut of a step over the nodes of the store.
MaxFanOut(step) ==
    IF DOMAIN kg_nodes = {} THEN 0
    ELSE CHOOSE n \in 0..(2 * Cardinality(kg_edges)) :
            /\ \A id \in DOMAIN kg_nodes : FanOut(id, step) <= n
            /\ \E id \in DOMAIN kg_nodes : FanOut(id, step) = n

\* C2 (as amended): the number of bindings after step k+1 is at most the
\* number after step k times the largest number of edges of the step's type
\* one node has in the step's direction; it may exceed the number after
\* step k, and an empty binding list stays empty.
C2_FanOutBound ==
    \A k \in 1..(Len(path_counts) - 1) :
        path_counts[k + 1] <= path_counts[k] * MaxFanOut(QList(graph_query, "paths")[k])

\* C2 (as stated): monotonic narrowing, the number of bindings after step
\* k+1 is at most the number after step k.
C2_MonotonicNarrowing ==
    \A k \in 1..(Len(path_counts) - 1) : path_counts[k + 1] <= path_counts[k]

\* C2 witness: a path was run and a step left more bindings than it found.
C2_StepFansOut ==
    /\ Executed
    /\ \E k \in 1..(Len(path_counts) - 1) :
           /\ path_counts[k] > 0
           /\ path_counts[k + 1] > path_counts[k]

\* The first start_nodes entry resolves to at least one node of the store.
FirstStartResolved ==
    /\ QList(graph_query, "start_nodes") # <<>>
    /\ \E id \in DOMAIN kg_nodes :
           Get(QList(graph_query, "start_nodes")[1], "label") \in kg_nodes[id].labels

\* Some path step lacks its 'relationship' key (a KeyError at line 977).
MalformedStep ==
    \E k \in 1..Len(QList(graph_query, "paths")) :
        "relationship" \notin DOMAIN QList(graph_query, "paths")[k]

\* The only filter compares an int property of a start node with a str
\* (a TypeError at line 921 or 926).
TypeMismatch ==
    /\ Len(QList(graph_query, "filters")) = 1
    /\ LET f == QList(graph_query, "filters")[1] IN
       /\ Get(f, "operator") \in {">", "<"}
       /\ f.value.kind = "str"
       /\ \E i \in 1..Len(QList(graph_query, "start_nodes")) :
              /\ QList(graph_query, "start_nodes")[i].alias = f.node
              /\ \E id \in DOMAIN kg_nodes :
                     /\ QList(graph_query, "start_nodes")[i].label \in kg_nodes[id].labels
                     /\ f.property \in DOMAIN kg_nodes[id].properties
                     /\ kg_nodes[id].properties[f.property].kind = "int"

\* A specification and a store on which the body of the try block faults.
KnownFault == ~Procedural /\ FirstStartResolved /\ (MalformedStep \/ TypeMismatch)

\* C3: execute_graph_query never propagates an exception: it returns a
\* result for every specification and store, and when the body faults the
\* result is exactly count 0, empty properties and an error message.
C3_NeverPropagates ==
    /\ ~raised
    /\ Executed => (Procedural \/ "count" \in DOMAIN results)
    /\ (Executed /\ KnownFault) => results = ErrorResults
    /\ (Executed /\ Failed) => results = ErrorResults

\* C3 witness: a specification with a path step missing a key was run on a
\* store holding its start nodes, and the error result came back.
C3_FaultConverted ==
    Executed /\ FirstStartResolved /\ MalformedStep /\ results = ErrorResults

\* The edge records of one type loaded between labelled endpoints.
LoadedBetween(source_label, rel_type, target_label) ==
    SumLoads(edge_loads,
             {e \in EdgeRecords :
                 /\ e[3] = rel_type
                 /\ e \in kg_edges
                 /\ source_label \in kg_nodes[e[1]].labels
                 /\ target_label \in kg_nodes[e[2]].labels})

\* C4: two loaded edges with the same source, target and type are kept as
\* independent parallel edges: the one-step coverage_inquiry query without
\* parameters yields one binding per edge record loaded between a Policy and
\* a Coverage.  (add_edge is keyed by the type, so the second record replaces
\* the first and this is violated.)
C4_OneBindingPerLoadedEdge ==
    (Executed /\ built /\ intent = "coverage_inquiry" /\ params = EmptyDict) =>
        /\ "count" \in DOMAIN results
        /\ results.count = LoadedBetween("Policy", "HAS_COVERAGE", "Coverage")

\* The <<alias, property>> keys a specification asks for.
ReturnKeys ==
    {<<Get(QList(graph_query, "return_properties")[k], "node"),
       Get(QList(graph_query, "return_properties")[k], "property")>> :
        k \in 1..Len(QList(graph_query, "return_properties"))}

\* A node passes every simple filter on its alias, as the start stage
\* compares.
PassesStartFilters(id, alias) ==
    \A i \in 1..Len(QList(graph_query, "filters")) :
        LET f == QList(graph_query, "filters")[i] IN
        (Get(f, "node") = alias /\ "operator" \in DOMAIN f) =>
            /\ f.property \in DOMAIN kg_nodes[id].properties
            /\ StartCompare(f.operator, kg_nodes[id].properties[f.property], f.value) = "pass"

\* The filtered start nodes bound to an alias.
FilteredStartNodes(alias) ==
    {id \in DOMAIN kg_nodes :
        /\ \E i \in 1..Len(QList(graph_query, "start_nodes")) :
               /\ QList(graph_query, "start_nodes")[i].alias = alias
               /\ QList(graph_query, "start_nodes")[i].label \in kg_nodes[id].labels
        /\ PassesStartFilters(id, alias)}

\* The nodes an alias is bound to at the end of the query.
BoundNodes(alias) ==
    IF QList(graph_query, "paths") = <<>>
    THEN FilteredStartNodes(alias)
    ELSE {b[alias] : b \in {x \in FinalBindings : alias \in DOMAIN x}}

\* The values of a key over the nodes its alias is bound to.
ValueSet(key) ==
    {kg_nodes[id].properties[key[2]] :
        id \in {x \in BoundNodes(key[1]) : key[2] \in DOMAIN kg_nodes[x].properties}}

\* The store of the coverage scenario: Policy P1001 whose one HAS_COVERAGE
\* edge leads to the liability Coverage.
ScenarioStore ==
    /\ {"pol1", "cov1"} \subseteq DOMAIN kg_nodes
    /\ "Policy" \in kg_nodes["pol1"].labels
    /\ "Coverage" \in kg_nodes["cov1"].labels
    /\ <<"pol1", "cov1", "HAS_COVERAGE">> \in kg_edges
    /\ <<"pol1", "cov2", "HAS_COVERAGE">> \notin kg_edges

\* C5: projection.  The properties map sends each requested alias.property
\* to the distinct values of the property over the final bindings (the
\* filtered start nodes without paths), each value once; and on the scenario
\* store the coverage_inquiry query for policy_number P1001 has count >= 1
\* and properties['c.type'] = ['liability'].
C5_Projection ==
    /\ (Executed /\ ~Procedural /\ ~Failed /\ FirstStartResolved) =>
          /\ DOMAIN results.properties = {key \in ReturnKeys : ValueSet(key) # {}}
          /\ \A key \in DOMAIN results.properties :
                 /\ Range(results.properties[key]) = ValueSet(key)
                 /\ Len(results.properties[key]) = Cardinality(ValueSet(key))
    /\ (/\ Executed /\ built /\ intent = "coverage_inquiry"
        /\ params = [policy_number |-> StrV("P1001")]
        /\ ScenarioStore) =>
          /\ results.count >= 1
          /\ results.properties[<<"c", "type">>] = <<StrV("liability")>>

\* C5 witness: the scenario was run, and its final bindings repeat a value
\* (the policy number) that the projection lists once.
C5_ScenarioProjected ==
    /\ Executed /\ built /\ intent = "coverage_inquiry"
    /\ params = [policy_number |-> StrV("P1001")]
    /\ ScenarioStore
    /\ results.properties[<<"c", "type">>] = <<StrV("liability")>>

\* The resolved start-node set is empty: no start_nodes entry, or no node of
\* the store carries the (first) start label.
StartEmpty == ~FirstStartResolved

\* C6 (as stated): for every specification whose resolved start-node set is
\* empty, the result has count = 0.
C6_EmptyStartCountZero ==
    (Executed /\ StartEmpty) => ("count" \in DOMAIN results /\ results.count = 0)

\* C6 (as amended): for every specification not marked is_procedural whose
\* resolved start-node set is empty, the result is the empty result with
\* count = 0; a procedural specification has no start_nodes entry and its
\* result is {type: 'procedural', data} with no count.
C6_EmptyStartNotProcedural ==
    (Executed /\ StartEmpty) =>
        IF Procedural
        THEN results = [type |-> "procedural",
                        data |-> GetD(graph_query, "procedural_data", EmptyDict)]
        ELSE results = EmptyResults

\* C6 witness: a specification with a start label that no node of a
\* non-empty store carries was run and gave count 0.
C6_UnknownLabelRun ==
    /\ Executed /\ ~Procedural /\ StartEmpty
    /\ QList(graph_query, "start_nodes") # <<>>
    /\ DOMAIN kg_nodes # {}
    /\ results.count = 0

-----------------------------------------------------------------------------
(* Properties of build_graph_query, checked under BuildSpec.               *)

\* The aliases introduced by start_nodes and the first k path steps.
Introduced(q, k) ==
    {QList(q, "start_nodes")[j].alias : j \in 1..Len(QList(q, "start_nodes"))}
    \cup {QList(q, "paths")[j]["to"]["alias"] : j \in 1..k}

\* The aliases a filter names, the conditions of a compound filter included.
FilterAliases(f) ==
    IF "conditions" \in DOMAIN f
    THEN {f.conditions[k].node : k \in 1..Len(f.conditions)}
    ELSE {f.node}

\* C7: a specification built by build_graph_query (base or enhanced) has no
\* forward references: every from-alias of a path step is introduced by
\* start_nodes or an earlier step, and every alias of a filter (the
\* conditions of a compound filter included) or of return_properties is
\* introduced by start_nodes or a path step.
C7_NoForwardReferences ==
    built =>
        /\ \A k \in 1..Len(QList(graph_query, "paths")) :
               QList(graph_query, "paths")[k]["from"]["alias"]
                   \in Introduced(graph_query, k - 1)
        /\ \A k \in 1..Len(QList(graph_query, "filters")) :
               FilterAliases(QList(graph_query, "filters")[k])
                   \subseteq Introduced(graph_query, Len(QList(graph_query, "paths")))
        /\ \A k \in 1..Len(QList(graph_query, "return_properties")) :
               QList(graph_query, "return_properties")[k].node
                   \in Introduced(graph_query, Len(QList(graph_query, "paths")))

\* C7 witness: a coverage_inquiry specification was built with a compound
\* filter over the alias that its path step introduces.
C7_CompoundFilterBuilt ==
    /\ built /\ intent = "coverage_inquiry"
    /\ "policy_number" \in DOMAIN params
    /\ \E k \in 1..Len(QList(graph_query, "filters")) :
           /\ "conditions" \in DOMAIN QList(graph_query, "filters")[k]
           /\ Len(QList(graph_query, "filters")[k].conditions) = 2
           /\ FilterAliases(QList(graph_query, "filters")[k]) = {"c"}

-----------------------------------------------------------------------------
(* Properties of the schema manager, checked under SchemaSpec.             *)

EntityTypesOf(S) == Range(get_entity_types(S))

\* The (name, source, target) triples get_relationship_types lists.
Triples(S) ==
    {<<get_relationship_types(S)[k].name, get_relationship_types(S)[k].source,
       get_relationship_types(S)[k].target>> : k \in 1..Len(get_relationship_types(S))}

\* C8: add_entity_type with a name that is already an entity type returns
\* false and leaves the schema graph, the schema versions and the quality
\* scores as they were.
C8_ReAddEntityTypeNoOp ==
    [][ (/\ last_call'.op = "add_entity_type"
         /\ last_call'.name \in EntityTypesOf(schema))
        => (ret' = FALSE /\ schema' = schema) ]_vars

\* C8 witness: add_entity_type was called with an existing name and other
\* properties than the entity type has, and returned false.
C8_ReAddRefused ==
    /\ last_call.op = "add_entity_type"
    /\ ret = FALSE
    /\ last_call.name \in EntityTypesOf(schema)
    /\ schema.nodes[last_call.name].properties # last_call.properties

\* Every edge of the schema graph joins two entity types.
EndpointsExist ==
    \A pr \in DOMAIN schema.edges :
        pr[1] \in EntityTypesOf(schema) /\ pr[2] \in EntityTypesOf(schema)

\* C9: add_relationship_type with a source or target that is no entity type
\* returns false and leaves the schema (relationship types, entity types,
\* versions) unchanged; and in every reachable state the source and target
\* of every relationship type are entity types.
C9_EndpointsMustExist ==
    /\ []EndpointsExist
    /\ [][ (/\ last_call'.op = "add_relationship_type"
            /\ \/ last_call'.source \notin EntityTypesOf(schema)
               \/ last_call'.target \notin EntityTypesOf(schema))
           => (ret' = FALSE /\ schema' = schema) ]_vars

\* C9 witness: add_relationship_type was called with an endpoint that is no
\* entity type and returned false.
C9_MissingEndpointRefused ==
    /\ last_call.op = "add_relationship_type"
    /\ ret = FALSE
    /\ \/ last_call.source \notin EntityTypesOf(schema)
       \/ last_call.target \notin EntityTypesOf(schema)

\* C10: with both endpoints existing, add_relationship_type returns false
\* exactly when the (name, source, target) triple already exists; otherwise
\* (the same name between another pair, another name between the same pair)
\* it returns true and get_relationship_types lists the new triple.
C10_OnlyDuplicateTripleRefused ==
    [][ (/\ last_call'.op = "add_relationship_type"
         /\ last_call'.source \in EntityTypesOf(schema)
         /\ last_call'.target \in EntityTypesOf(schema))
        => /\ (ret' = FALSE) <=>
                  (<<last_call'.name, last_call'.source, last_call'.target>>
                       \in Triples(schema))
           /\ (ret' = TRUE) =>
                  (<<last_call'.name, last_call'.source, last_call'.target>>
                       \in Triples(schema')) ]_vars

\* C10 witness: add_relationship_type returned true for a name that another
\* pair carries too, between a pair that the default schema already joined
\* under another name.
C10_AcceptedBesideNamesake ==
    /\ last_call.op = "add_relationship_type"
    /\ ret = TRUE
    /\ <<last_call.source, last_call.target>> \in DOMAIN NewSchema.edges
    /\ NewSchema.edges[<<last_call.source, last_call.target>>].name # last_call.name
    /\ \E t \in Triples(schema) :
           t[1] = last_call.name /\ <<t[2], t[3]>> # <<last_call.source, last_call.target>>

\* The version records carry the numbers 1, 2, ..., n in order.
VersionsNumbered ==
    \A k \in 1..Len(schema.versions) : schema.versions[k].version = k

\* The entries a call reported as applied.
AppliedCount(report) ==
    Len(report.new_entity_types) + Len(report.new_property_types)
        + Len(report.new_relationship_types)

\* C11: schema_versions is append-only.  In every reachable state its
\* entries are numbered 1..n in order; every call keeps the earlier entries
\* as they were; an add_entity_type or add_relationship_type call that
\* returns true appends exactly one entry and one that returns false appends
\* none; evolve_schema appends one entry per change it reports as applied.
C11_VersionsAppendOnly ==
    /\ []VersionsNumbered
    /\ [][ /\ Len(schema'.versions) >= Len(schema.versions)
           /\ SubSeq(schema'.versions, 1, Len(schema.versions)) = schema.versions
           /\ (last_call'.op \in {"add_entity_type", "add_relationship_type"} /\ ret' = TRUE)
                  => Len(schema'.versions) = Len(schema.versions) + 1
           /\ (last_call'.op \in {"add_entity_type", "add_relationship_type"} /\ ret' = FALSE)
                  => schema'.versions = schema.versions
           /\ last_call'.op = "evolve_schema"
                  => Len(schema'.versions) = Len(schema.versions) + AppliedCount(ret') ]_vars

\* C11 witness: a successful add appended the second entry after the ones
\* the constructor left.
C11_SecondEntryAppended ==
    /\ last_call.op \in {"add_entity_type", "add_relationship_type"}
    /\ ret = TRUE
    /\ Len(schema.versions) = InitialVersions + 2

\* The rel_key of every edge record of a batch.
RelKeysOf(data) == [k \in 1..Len(data.edges) |-> RelKey(data.edges[k], data.nodes)]

\* The confidence (in tenths) the batch gives a recommendation key.
BatchConfidence(data, key) == ConfidenceOf(data.nodes, data.edges, RelKeysOf(data), key)

\* What an evolve_schema call on the batch with the threshold may have
\* turned schema S into schema T.
Gated(S, T, data, threshold) ==
    /\ \A l \in EntityTypesOf(T) \ EntityTypesOf(S) :
           BatchConfidence(data, <<"entity_type", l>>) >= threshold
    /\ \A l \in EntityTypesOf(S) :
           \A x \in DOMAIN T.nodes[l].properties \ DOMAIN S.nodes[l].properties :
               BatchConfidence(data, <<"property", l, x>>) >= threshold
    /\ \A t \in Triples(T) \ Triples(S) :
           BatchConfidence(data, <<"relationship_type", t[1], t[2], t[3]>>) >= threshold
    /\ \A l \in AllLabels(data) \ EntityTypesOf(S) :
           BatchConfidence(data, <<"entity_type", l>>) >= threshold
               => l \in EntityTypesOf(T)

\* C12: evolve_schema adds an entity type, a property of an existing entity
\* type or a relationship type only when the batch gives it a confidence at
\* or over the threshold, and every label of the batch that is no entity
\* type yet and has a confidence at or over the threshold is an entity type
\* when the call returns.
C12_ThresholdGates ==
    [][ last_call'.op = "evolve_schema"
        => Gated(schema, schema', Batch(last_call'.batch), last_call'.threshold) ]_vars

\* C12 witness: with threshold 0.5, six Car nodes and three Person nodes,
\* evolve_schema added Car (confidence 0.6) and left Person (0.3) out.
C12_CarAddedPersonLeftOut ==
    /\ last_call.op = "evolve_schema"
    /\ last_call.batch = <<6, 3, 0, 3, 0, 0>>
    /\ last_call.threshold = 5
    /\ "Car" \in EntityTypesOf(schema)
    /\ "Person" \notin EntityTypesOf(schema)
    /\ Len(ret.new_entity_types) = 1

\* The entity type names a report of evolve_schema lists.
ReportedEntityTypes(report) ==
    {report.new_entity_types[k].name : k \in 1..Len(report.new_entity_types)}

\* The relationship (name, source, target) triples a report lists.
ReportedTriples(report) ==
    {<<report.new_relationship_types[k].name, report.new_relationship_types[k].source,
       report.new_relationship_types[k].target>> :
        k \in 1..Len(report.new_relationship_types)}

\* C13: the report of evolve_schema lists an entity type exactly when it was
\* no entity type before the call and is one when the call returns, and a
\* relationship (name, source, target) triple exactly when the triple was not
\* in the schema before the call and is in it when the call returns.
C13_ReportExact ==
    [][ last_call'.op = "evolve_schema"
        => /\ ReportedEntityTypes(ret') = EntityTypesOf(schema') \ EntityTypesOf(schema)
           /\ ReportedTriples(ret') = Triples(schema') \ Triples(schema) ]_vars

\* C14: analyze_instance_data leaves the schema graph (entity types, their
\* properties, relationship types), schema_versions and quality_scores as
\* they were, for every batch.
C14_AnalyzeLeavesSchema ==
    [][ last_call'.op = "analyze_instance_data" => schema' = schema ]_vars

\* C14 witness: analyze_instance_data returned proposals of all three
\* kinds, none of which is in the schema.
C14_ProposalsNotApplied ==
    /\ last_call.op = "analyze_instance_data"
    /\ Len(ret.new_entity_types) > 0
    /\ Len(ret.new_property_types) > 0
    /\ Len(ret.new_relationship_types) > 0
    /\ \A k \in 1..Len(ret.new_entity_types) :
           ret.new_entity_types[k].name \notin EntityTypesOf(schema)

\* The property names recommendations propose for an existing entity type.
ProposedProps(recommendations, label) ==
    UNION {DOMAIN recommendations.new_property_types[k].props :
              k \in {j \in 1..Len(recommendations.new_property_types) :
                         recommendations.new_property_types[j].entity_type = label}}

\* The number of nodes of a batch that carry the label and the property.
Observations(data, label, x) ==
    Cardinality({k \in 1..Len(data.nodes) :
                    /\ label \in Range(data.nodes[k].labels)
                    /\ x \in DOMAIN data.nodes[k].properties})

CappedTenths(count, divisor) ==
    IF count >= divisor THEN 10 ELSE IF divisor = 5 THEN 2 * count ELSE count

\* The number of nodes of a batch that carry the label.
LabelCount(data, label) ==
    Cardinality({k \in 1..Len(data.nodes) : label \in Range(data.nodes[k].labels)})

\* The number of edges of a batch with the relationship key.
RelKeyCount(data, key) ==
    Cardinality({k \in 1..Len(data.edges) : RelKey(data.edges[k], data.nodes) = key})

\* The count behind the confidence score of a recommendation key, and the
\* divisor the score is computed with.
ObservationCount(data, key) ==
    CASE key[1] = "entity_type" -> LabelCount(data, key[2])
      [] key[1] = "relationship_type" -> RelKeyCount(data, <<key[2], key[3], key[4]>>)
      [] OTHER -> Observations(data, key[2], key[3])

DivisorOf(key) == IF key[1] = "relationship_type" THEN 5 ELSE 10

\* The confidence scores of recommendations made from a batch.
ScoresAsSpecified(data, recommendations) ==
    /\ \A key \in DOMAIN recommendations.confidence_scores :
           /\ recommendations.confidence_scores[key] \in 0..10
           /\ recommendations.confidence_scores[key]
                  = CappedTenths(ObservationCount(data, key), DivisorOf(key))
    /\ \A k \in 1..Len(recommendations.new_entity_types) :
           /\ <<"entity_type", recommendations.new_entity_types[k].name>>
                  \in DOMAIN recommendations.confidence_scores
           /\ LabelCount(data, recommendations.new_entity_types[k].name) >= 6
                  => recommendations.confidence_scores[
                         <<"entity_type", recommendations.new_entity_types[k].name>>] >= 6
    /\ \A k \in 1..Len(recommendations.new_relationship_types) :
           <<"relationship_type", recommendations.new_relationship_types[k].name,
             recommendations.new_relationship_types[k].source,
             recommendations.new_relationship_types[k].target>>
               \in DOMAIN recommendations.confidence_scores

\* Confidence is non-decreasing in the count and never over 1.0.
ConfidenceMonotonic ==
    \A divisor \in {entity_confidence_divisor, relationship_confidence_divisor} :
        /\ \A c \in 0..12 : \A d \in c..12 :
               Confidence(c, divisor) <= Confidence(d, divisor)
        /\ \A c \in 0..12 : Confidence(c, divisor) \in 0..10
        /\ Confidence(10, divisor) >= Confidence(3, divisor)

\* C16: every confidence score analyze_instance_data returns is
\* min(1, count / 10) for a new entity type or a new property and
\* min(1, count / 5) for a new relationship type (in tenths: between 0 and
\* 10); the score is non-decreasing in the count and capped at 1.0; a new
\* label seen on six or more nodes is proposed with confidence >= 0.6.
C16_ConfidenceFromCount ==
    /\ []ConfidenceMonotonic
    /\ [][ last_call'.op = "analyze_instance_data"
           => ScoresAsSpecified(Batch(last_call'.batch), ret') ]_vars

\* C16 witness: six Person nodes owning one Car: the new label Person is
\* proposed with confidence 0.6 and the new relationship type OWNS, seen six
\* times, with the capped confidence 1.0.
C16_SixPersonsSixOwns ==
    /\ last_call.op = "analyze_instance_data"
    /\ LabelCount(Batch(last_call.batch), "Person") = 6
    /\ <<"entity_type", "Person">> \in DOMAIN ret.confidence_scores
    /\ ret.confidence_scores[<<"entity_type", "Person">>] = 6
    /\ <<"relationship_type", "OWNS", "Person", "Car">> \in DOMAIN ret.confidence_scores
    /\ ret.confidence_scores[<<"relationship_type", "OWNS", "Person", "Car">>] = 10

\* C17: the schema manager constructed from the file export_schema wrote
\* has the same set of entity type names and the same set of relationship
\* (name, source, target) triples as the exporting one.
C17_ExportReimportRoundTrip ==
    last_call.op = "reimport"
    => /\ EntityTypesOf(ret) = EntityTypesOf(schema)
       /\ Triples(ret) = Triples(schema)

\* C17 witness: a schema that evolve_schema extended by Person, Car and
\* OWNS was exported and imported again, with OWNS in the new manager.
C17_EvolvedSchemaReimported ==
    /\ last_call.op = "reimport"
    /\ {"Person", "Car"} \subseteq EntityTypesOf(schema)
    /\ <<"OWNS", "Person", "Car">> \in Triples(ret)
    /\ Len(ret.versions) = Len(ret.node_order) + Len(ret.edge_order) + 1

-----------------------------------------------------------------------------
(* Properties of extract_parameters, checked under FrontSpec.              *)

\* C18: extract_parameters leaves the user_context it is given as it was,
\* and a call with the query, the intent and the user_context of the call
\* before it returns the params that call returned.
C18_ExtractIsPure ==
    [][ query_text' # None
        => /\ user_context' = user_context
           /\ (query_text' = query_text /\ intent' = intent) => params' = params ]_vars

\* The policy type keywords the query mentions.
PolicyTypesIn(q) == WordsIn(q) \cap Range(policy_types)

\* The mentioned policy type keyword that comes first in policy_types.
FirstPolicyTypeIn(q) ==
    policy_types[CHOOSE k \in 1..Len(policy_types) :
                    /\ policy_types[k] \in WordsIn(q)
                    /\ \A j \in 1..(k - 1) : policy_types[j] \notin WordsIn(q)]

-----------------------------------------------------------------------------
(* Properties of generate_response, checked under ResponseSpec.            *)

\* The values query_results['properties'] holds under alias.property.
ResultValues(query_results, alias, prop) ==
    UNION {{it.values[k].s : k \in 1..Len(it.values)} :
              it \in {x \in Range(GetD(query_results, "properties", <<>>)) :
                         x.key = <<alias, prop>>}}

\* The query results carry a value under alias.property.
Carries(query_results, alias, prop) ==
    ResultValues(query_results, alias, prop) # {}

\* The parts of answers that say "couldn't find".
CouldntFindParts ==
    {"I couldn't find any policy with the number ",
     "I couldn't find any claim with the number ",
     "I couldn't find any information about your "}

\* C19: for the intent policy_details, query results with count > 0 that
\* carry p.policy_number, p.effective_date, p.expiration_date, p.status and
\* p.type give success = true and an answer that contains the policy number
\* and the policy type value, and query results with count 0 give
\* success = false and an answer that says "couldn't find".
C19_PolicyDetailsAnswer ==
    (response # NoCall /\ intent = "policy_details"
        /\ Get(response.query_results, "type") # "procedural")
    => /\ ( /\ GetD(response.query_results, "count", 0) > 0
            /\ \A prop \in {"policy_number", "effective_date", "expiration_date",
                            "status", "type"} :
                   Carries(response.query_results, "p", prop) )
          => /\ response.ret.success = TRUE
             /\ ResultValues(response.query_results, "p", "policy_number")
                    \subseteq Range(response.ret.answer)
             /\ ResultValues(response.query_results, "p", "type")
                    \subseteq Range(response.ret.answer)
       /\ GetD(response.query_results, "count", 0) = 0
          => /\ response.ret.success = FALSE
             /\ Range(response.ret.answer) \cap CouldntFindParts # {}

-----------------------------------------------------------------------------
(* Properties of analyze_intent, checked under IntentSpec.                 *)

\* The number of patterns of the intent that match the analysed query.
ScoreOf(i) == PatternScore(i, analysis.query_text)

\* The position of an intent in intent_patterns.
DefinedAt(i) == CHOOSE k \in 1..Len(intent_patterns) : intent_patterns[k] = i

\* C21: when a pattern of some intent matches the query, analyze_intent
\* returns the method 'pattern', an intent whose number of matching patterns
\* no other intent exceeds and that no intent defined before it equals, and
\* the confidence min(0.9, 0.7 + 0.1 * score), between 0.7 and 0.9; the
\* embedding of the query is asked for only when no pattern matches.
C21_PatternStep ==
    analysis # NoCall
    => /\ MatchedPatterns(analysis.query_text) # {}
          => /\ analysis.ret.method = "pattern"
             /\ analysis.ret.intent \in Range(intent_patterns)
             /\ ScoreOf(analysis.ret.intent) > 0
             /\ \A i \in Range(intent_patterns) :
                    /\ ScoreOf(i) <= ScoreOf(analysis.ret.intent)
                    /\ DefinedAt(i) < DefinedAt(analysis.ret.intent)
                           => ScoreOf(i) < ScoreOf(analysis.ret.intent)
             /\ analysis.ret.confidence
                    = (IF 7 + ScoreOf(analysis.ret.intent) < 9
                       THEN 7 + ScoreOf(analysis.ret.intent) ELSE 9)
             /\ analysis.ret.confidence \in 7..9
       /\ analysis.embedded => MatchedPatterns(analysis.query_text) = {}

\* C21 witness: a query that one pattern of claim_status and one pattern of
\* premium_information match was analysed as claim_status by the pattern
\* step, with confidence 0.8 and without the embedding.
C21_TieGoesToFirstDefined ==
    /\ analysis # NoCall
    /\ ScoreOf("claim_status") = 1
    /\ ScoreOf("premium_information") = 1
    /\ analysis.ret = [intent |-> "claim_status", confidence |-> 8, method |-> "pattern"]
    /\ ~analysis.embedded

-----------------------------------------------------------------------------
(* Properties of the AutomationManager, checked under AutomationSpec.      *)

\* C22: after any sequence of process_query_with_automation calls,
\* autonomous_decisions + escalations = total_decisions, decision_history
\* and escalation_history are as long as those two counters say, and the
\* response returned last is not marked both autonomous and
\* requires_human_review.
C22_EveryQueryCountedOnce ==
    /\ automation.metrics.autonomous_decisions + automation.metrics.escalations
           = automation.metrics.total_decisions
    /\ Len(automation.decision_history) = automation.metrics.autonomous_decisions
    /\ Len(automation.escalation_history) = automation.metrics.escalations
    /\ auto_call # NoCall
           => ~ /\ GetD(auto_call.ret, "autonomous", FALSE)
                /\ GetD(auto_call.ret, "requires_human_review", FALSE)

-----------------------------------------------------------------------------
(* Properties of adjust_confidence_thresholds, checked under ThresholdSpec. *)

\* The threshold of an intent before the last adjust_confidence_thresholds
\* call and after it.
ThresholdBefore(i) == ThresholdFor(auto_call.ret.previous_thresholds, i)
ThresholdAfter(i) == ThresholdFor(automation.confidence_thresholds, i)

\* The feedback decisions of an intent and the correct ones among them.
FeedbackTotal(i) == PerformanceTotal(automation.decision_history, i)
FeedbackCorrect(i) == PerformanceCorrect(automation.decision_history, i)

\* C23: after adjust_confidence_thresholds, an intent with feedback
\* decisions whose accuracy is above 0.9 has its threshold lowered by 0.05
\* but not below 0.6, one whose accuracy is below 0.7 has it raised by 0.1
\* but not above 0.95, three incorrect decisions being enough; an intent
\* whose threshold moved is listed in the returned adjustments.
C23_ThresholdFollowsAccuracy ==
    (auto_call # NoCall /\ auto_call.op = "adjust_confidence_thresholds")
    => \A i \in PerformanceIntents(automation.decision_history) :
           /\ 10 * FeedbackCorrect(i) > 9 * FeedbackTotal(i)
                  => ThresholdAfter(i)
                        = (IF ThresholdBefore(i) - 5 > 60 THEN ThresholdBefore(i) - 5 ELSE 60)
           /\ 10 * FeedbackCorrect(i) < 7 * FeedbackTotal(i)
                  => ThresholdAfter(i)
                        = (IF ThresholdBefore(i) + 10 < 95 THEN ThresholdBefore(i) + 10 ELSE 95)
           /\ ThresholdAfter(i) # ThresholdBefore(i)
                  => i \in DOMAIN auto_call.ret.adjustments

-----------------------------------------------------------------------------
(* Further properties of the schema manager, checked under SchemaSpec.     *)

\* The relationship triples analyze_instance_data proposes for a batch with
\* a confidence at or over the threshold.
ConfidentProposals(S, data, threshold) ==
    {t \in Range(NewRelKeys(S, RelKeysOf(data))) :
        BatchConfidence(data, <<"relationship_type", t[1], t[2], t[3]>>) >= threshold}

\* What evolve_schema did with one confident relationship proposal t when it
\* turned schema S into schema T and returned the report.
AppliedAfterEntityTypes(S, T, report, t) ==
    /\ ( /\ {t[2], t[3]} \subseteq EntityTypesOf(T)
         /\ ~({t[2], t[3]} \subseteq EntityTypesOf(S)) )
           => t \in ReportedTriples(report)
    /\ ~({t[2], t[3]} \subseteq EntityTypesOf(T))
           => /\ t \notin ReportedTriples(report)
              /\ t \notin Triples(T)

\* C24: in an evolve_schema call a proposed relationship with a confidence
\* at or over the threshold whose source or target became an entity type in
\* this call is applied and reported; one whose source or target is no
\* entity type when the call returns is neither reported nor in the schema,
\* and when that is so for every confident proposal the relationship types
\* are what they were.
C24_EntityTypesBeforeRelationships ==
    [][ last_call'.op = "evolve_schema"
        => /\ \A t \in ConfidentProposals(schema, Batch(last_call'.batch),
                                            last_call'.threshold) :
                  AppliedAfterEntityTypes(schema, schema', ret', t)
           /\ (\A t \in ConfidentProposals(schema, Batch(last_call'.batch),
                                             last_call'.threshold) :
                   ~({t[2], t[3]} \subseteq EntityTypesOf(schema')))
                  => Triples(schema') = Triples(schema) ]_vars

\* C24 witness: with threshold 0.5, three OWNS edges from Person to Car
\* (confidence 0.6) were proposed while Person (0.3) stayed out of the
\* schema; OWNS was rejected and the report lists no relationship type.
C24_OwnsRejectedWithoutPerson ==
    /\ last_call.op = "evolve_schema"
    /\ last_call.batch = <<6, 3, 0, 3, 0, 0>>
    /\ last_call.threshold = 5
    /\ BatchConfidence(Batch(last_call.batch), <<"relationship_type", "OWNS", "Person", "Car">>) >= 5
    /\ "Person" \notin EntityTypesOf(schema)
    /\ ret.new_relationship_types = <<>>
    /\ <<"OWNS", "Person", "Car">> \notin Triples(schema)

-----------------------------------------------------------------------------
(* Further properties of execute_graph_query, checked under Spec.          *)

\* The simple filters the loops apply to the node bound to an alias.
SimpleFiltersOn(alias) ==
    {f \in Range(QList(graph_query, "filters")) :
        /\ Get(f, "node") = alias
        /\ "operator" \in DOMAIN f
        /\ f["operator"] \notin {"AND", "OR"}}

\* Two property values are equal up to the letter case of strings.
EqualUpToCase(v, w) ==
    IF v.kind = "str" /\ w.kind = "str" THEN Lower(v.s) = Lower(w.s) ELSE v = w

\* The alias and label of the first start_nodes entry.
StartAlias == QList(graph_query, "start_nodes")[1].alias
StartLabel == QList(graph_query, "start_nodes")[1].label

\* The nodes of the start label that have every filtered property with a
\* value equal to the filter value up to case.
PassingStartNodes ==
    {id \in DOMAIN kg_nodes :
        /\ StartLabel \in kg_nodes[id].labels
        /\ \A f \in SimpleFiltersOn(StartAlias) :
               /\ f.property \in DOMAIN kg_nodes[id].properties
               /\ EqualUpToCase(kg_nodes[id].properties[f.property], f.value)}

\* C25: the '=' filter differs between the stages.  When every filter on the
\* start alias is an '=' filter, the start nodes kept are exactly the nodes
\* of the start label that have each filtered property with a value equal
\* to the filter value up to letter case; a node a path step binds has each
\* property filtered with '=' on its alias, with exactly the filter value
\* (a value differing in case fails); a node lacking the property is
\* excluded in both stages.
C25_EqualsBetweenStages ==
    (Executed /\ ~Procedural /\ ~Failed /\ FirstStartResolved) =>
        /\ (\A f \in SimpleFiltersOn(StartAlias) : f.operator = "=") =>
               /\ path_counts # <<>>
               /\ path_counts[1] = Cardinality(PassingStartNodes)
        /\ \A b \in FinalBindings :
               \A a \in ToAliases \cap DOMAIN b :
                   \A f \in SimpleFiltersOn(a) :
                       f.operator = "=" =>
                           /\ f.property \in DOMAIN kg_nodes[b[a]].properties
                           /\ kg_nodes[b[a]].properties[f.property] = f.value

\* C25 witness: the Coverage of type 'liability' passed the start filter
\* type = 'Liability'; of the two Policy nodes holding it, the one numbered
\* 'P1001' failed policy_number = 'p1001' and the one without a policy
\* number was left out, so the step ended with no binding.
C25_CaseMattersAfterStep ==
    /\ Executed /\ ~Failed
    /\ SimpleFilter("c", "type", "=", StrV("Liability")) \in SimpleFiltersOn("c")
    /\ SimpleFilter("p", "policy_number", "=", StrV("p1001")) \in SimpleFiltersOn("p")
    /\ {<<"pol1", "cov1", "HAS_COVERAGE">>, <<"pol2", "cov1", "HAS_COVERAGE">>} \subseteq kg_edges
    /\ "Policy" \in kg_nodes["pol1"].labels
    /\ "Policy" \in kg_nodes["pol2"].labels
    /\ kg_nodes["cov1"].properties = NodeRecord("cov1").properties
    /\ kg_nodes["pol1"].properties = NodeRecord("pol1").properties
    /\ "policy_number" \notin DOMAIN kg_nodes["pol2"].properties
    /\ path_counts = <<1, 0>>

\* A filter holds of a property value as the connected-node loop compares.
HoldsAfterStep(f, v) ==
    CASE f.operator = "="  -> v = f.value
      [] f.operator = "!=" -> v # f.value
      [] f.operator = ">"  -> v.kind = "int" /\ f.value.kind = "int" /\ v.n > f.value.n
      [] f.operator = "<"  -> v.kind = "int" /\ f.value.kind = "int" /\ v.n < f.value.n
      [] OTHER -> TRUE

\* The neighbours of a node that survive a step's edge-type, direction, label
\* and filter checks.
Survivors(id, step) ==
    {n \in DOMAIN kg_nodes :
        /\ IF step.relationship.direction = "outgoing"
           THEN <<id, n, step.relationship.type>> \in kg_edges
           ELSE <<n, id, step.relationship.type>> \in kg_edges
        /\ step["to"].label \in kg_nodes[n].labels
        /\ \A f \in SimpleFiltersOn(step["to"].alias) :
               /\ f.property \in DOMAIN kg_nodes[n].properties
               /\ HoldsAfterStep(f, kg_nodes[n].properties[f.property])}

\* The join of a set of bindings with a step.
Join(B, step) ==
    {[a \in DOMAIN b \cup {step["to"].alias} |->
         IF a = step["to"].alias THEN n ELSE b[a]] :
       <<b, n>> \in {x \in B \X DOMAIN kg_nodes :
                        /\ step["from"].alias \in DOMAIN x[1]
                        /\ x[2] \in Survivors(x[1][step["from"].alias], step)}}

\* The bindings after the first k steps of the specification run last.
RECURSIVE BindingsAfter(_)
BindingsAfter(k) ==
    IF k = 0
    THEN {[a \in {StartAlias} |-> id] :
             id \in {x \in FilteredStartNodes(StartAlias) : StartLabel \in kg_nodes[x].labels}}
    ELSE Join(BindingsAfter(k - 1), QList(graph_query, "paths")[k])

\* Every step of the specification names 'outgoing' or 'incoming'.
OneWaySteps ==
    \A k \in 1..Len(QList(graph_query, "paths")) :
        QList(graph_query, "paths")[k].relationship.direction \in {"outgoing", "incoming"}

UnionSurvivors(id, step) ==
    {n \in DOMAIN kg_nodes :
        /\ \/ <<id, n, step.relationship.type>> \in kg_edges
           \/ <<n, id, step.relationship.type>> \in kg_edges
        /\ step["to"].label \in kg_nodes[n].labels
        /\ \A f \in SimpleFiltersOn(step["to"].alias) :
               /\ f.property \in DOMAIN kg_nodes[n].properties
               /\ HoldsAfterStep(f, kg_nodes[n].properties[f.property])}

\* The specification run last has one step, with direction 'both'.
OneStepBothWays ==
    /\ Len(QList(graph_query, "paths")) = 1
    /\ StepHeadKeys(QList(graph_query, "paths")[1])
    /\ QList(graph_query, "paths")[1].relationship.direction = "both"

\* C27: with direction 'both' the neighbours followed from a node are the
\* set union of its outgoing and incoming neighbours over edges of the type:
\* a one-step specification returns one binding per start node and
\* neighbour in that union, a neighbour connected both ways once.  (The
\* code appends the incoming list to the outgoing list, so such a neighbour
\* is bound twice and this is violated.)
C27_BothIsSetUnion ==
    (Executed /\ ~Procedural /\ ~Failed /\ FirstStartResolved /\ OneStepBothWays) =>
        /\ results.count =
              Cardinality({x \in BindingsAfter(0) \X DOMAIN kg_nodes :
                  x[2] \in UnionSurvivors(x[1][StartAlias], QList(graph_query, "paths")[1])})
        /\ "paths" \in DOMAIN results =>
              Len(results.paths) = Cardinality(FinalBindings)

-----------------------------------------------------------------------------
(* Properties of the quality scores and of the relationship types.         *)

EntityCount == Cardinality(EntityTypesOf(schema))
RelationshipCount == Len(get_relationship_types(schema))

\* Required properties over properties of an entity type of the schema; an
\* entity type without properties counts as 0.
RequiredShare(name) ==
    IF DOMAIN schema.nodes[name].properties = {} THEN Zero
    ELSE Frac(Cardinality({x \in DOMAIN schema.nodes[name].properties :
                              schema.nodes[name].properties[x].required}),
              Cardinality(DOMAIN schema.nodes[name].properties))

RECURSIVE SumShares(_)
SumShares(names) ==
    IF names = {} THEN Zero
    ELSE FracAdd(RequiredShare(CHOOSE x \in names : TRUE),
                 SumShares(names \ {CHOOSE x \in names : TRUE}))

\* C28: quality scores are derived state.  After every completed operation
\* quality_scores holds the values computed from the schema as it is:
\* coverage = min(1, (E/15 + R/25)/2), consistency = the mean over the
\* entity types of required properties / properties, connectivity = the
\* density of the schema graph, overall = the mean of the three.
C28_QualityScoresDerived ==
    /\ schema.quality_scores.coverage
          = FracMin(One, Frac(5 * EntityCount + 3 * RelationshipCount, 150))
    /\ EntityCount > 0
    /\ schema.quality_scores.consistency
          = FracDivInt(SumShares(EntityTypesOf(schema)), EntityCount)
    /\ schema.quality_scores.connectivity
          = IF RelationshipCount = 0 \/ EntityCount <= 1 THEN Zero
            ELSE Frac(RelationshipCount, EntityCount * (EntityCount - 1))
    /\ schema.quality_scores.overall
          = FracDivInt(FracAdd(FracAdd(schema.quality_scores.coverage,
                                       schema.quality_scores.consistency),
                               schema.quality_scores.connectivity), 3)

\* C28 witness: an evolve_schema call on the initial schema added no entity
\* type and no relationship type but merged a new property into Policy, and
\* the consistency score is no longer the initial one.
C28_PropertyMergeRescored ==
    /\ last_call.op = "evolve_schema"
    /\ Len(schema.versions) = InitialVersions + 1
    /\ ret.new_entity_types = <<>>
    /\ ret.new_relationship_types = <<>>
    /\ ret.new_property_types # <<>>
    /\ schema.quality_scores.consistency # NewSchema.quality_scores.consistency

\* C29: no operation removes a relationship type.  Every triple (name,
\* source, target) get_relationship_types lists is listed after every later
\* operation, and an add_relationship_type call that returns True leaves
\* its triple listed and one relationship type more than before.  (The
\* schema graph has one edge per ordered pair of entity types, so a
\* relationship type added between a pair that already has one replaces it
\* and this is violated.)
C29_RelationshipTypesKept ==
    [][ /\ Triples(schema) \subseteq Triples(schema')
        /\ (last_call'.op = "add_relationship_type" /\ ret' = TRUE) =>
               /\ <<last_call'.name, last_call'.source, last_call'.target>>
                      \in Triples(schema')
               /\ Len(get_relationship_types(schema'))
                      = Len(get_relationship_types(schema)) + 1 ]_vars

\* A score lies in [0, 1].
InUnitInterval(x) == FracLeq(Zero, x) /\ FracLeq(x, One)

\* C30: in every state reached by add_entity_type, add_relationship_type
\* and evolve_schema each quality score (coverage, consistency,
\* connectivity, overall) lies in [0, 1], relationship types from an entity
\* type to itself included.  (The density of a directed graph counts
\* self-loops among the edges but not among the possible edges, so the
\* connectivity score can exceed 1 and this is violated.)
C30_ScoresInUnitInterval ==
    \A k \in DOMAIN schema.quality_scores : InUnitInterval(schema.quality_scores[k])

=============================================================================
